---- MODULE Spec2Model ----
(***************************************************************************)
(* Model of the youtube_factory video pipeline: the orchestrator           *)
(* (worker.py run_pipeline / _update_job_status / enqueue_job) and the six *)
(* stage functions it calls (tasks/*.py).                                  *)
(*                                                                         *)
(* A stage function is a deterministic function of its arguments, of the   *)
(* process environment and of the answers of the external services it      *)
(* calls.  Each one is an operator that takes those answers as an ORACLE   *)
(* (a sequence consumed in call order) and returns the function's outcome  *)
(* together with the trace of external calls it made and the files it      *)
(* wrote.  The orchestrator is a process per worker whose steps are the    *)
(* stage calls, each followed by its _update_job_status.                   *)
(***************************************************************************)
EXTENDS Integers, Sequences, FiniteSets, TLC

(***************************************************************************)
(* Bounds of the model.                                                    *)
(***************************************************************************)
MaxJobs == 2        \* job submissions
MaxRequeues == 1    \* re-deliveries of a finished job (retry / re-submission)
MaxClock == 1       \* wall-clock seconds that can elapse (datetime.now())

(***************************************************************************)
(* Small helpers.                                                          *)
(***************************************************************************)
EmptyMap == [k \in {} |-> "none"]

At(oracle, n) == oracle[IF n > Len(oracle) THEN Len(oracle) ELSE n]

Merge(cur, upd) ==
    [k \in (DOMAIN cur) \cup (DOMAIN upd) |-> IF k \in DOMAIN upd THEN upd[k] ELSE cur[k]]

IsPrefix(s, t) == Len(s) <= Len(t) /\ \A i \in 1..Len(s) : s[i] = t[i]

(***************************************************************************)
(* Exceptions: the Python type and str(e), kept as a sequence of parts.    *)
(***************************************************************************)
Min(a, b) == IF a < b THEN a ELSE b

Exc(type, msg) == [type |-> type, msg |-> msg]
NoExc == Exc("none", <<>>)

Returned(v) == [raised |-> FALSE, value |-> v, exc |-> NoExc]
Raised(e, dummy) == [raised |-> TRUE, value |-> dummy, exc |-> e]

(***************************************************************************)
(* JSON values a language model can answer with (script_gen.py).           *)
(* A section is a JSON value of some type; `names` are its keys (dict),    *)
(* its elements (list) or the key names occurring in it (str).             *)
(***************************************************************************)
SecKeys == {"heading", "body", "b_roll"}
RequiredTop == {"title", "hook", "sections", "cta", "tags", "shorts"}

\* A section with its values: the strings under "heading" and "b_roll", and the
\* numbers of whitespace-separated words under "heading" and under "body".  The
\* value of a key that is not in `names` is never read.
SectionWith(t, names, heading, b_roll, hw, bw) ==
    [t |-> t, names |-> names, heading |-> heading, b_roll |-> b_roll, hw |-> hw, bw |-> bw]

Section(t, names) == SectionWith(t, names, "H", "B", 1, 3)

\* sec.get(key, default) for key "heading" or "b_roll".
SecGet(sec, key, default) == IF key \in sec.names THEN sec[key] ELSE default
JStr(s) == [t |-> "str", s |-> s]
JNum == [t |-> "num", s |-> "7"]
JList(items) == [t |-> "list", items |-> items]
JNotList == [t |-> "str", items |-> <<>>]

\* chars: the length of the narration text the orchestrator builds from the object.
Obj(type, keys, title, hook, sections, reason, chars) ==
    [type |-> type, keys |-> keys, title |-> title, hook |-> hook, sections |-> sections,
     reason |-> reason, chars |-> chars]
NoObj == Obj("none", {}, JStr(""), "", JNotList, "", 0)

Text(wrap, obj) == [wrap |-> wrap, obj |-> obj]
NoText == Text("none", NoObj)

\* Python's `k in sec` for a section value; "TypeError" when sec is not iterable.
PyIn(k, sec) ==
    IF sec.t = "num" THEN "TypeError"
    ELSE IF k \in sec.names THEN "true" ELSE "false"

\* all(k in sec for k in ("heading", "body", "b_roll")): evaluated left to right,
\* stops at the first false, a TypeError propagates.
AllKeysIn(sec) ==
    IF PyIn("heading", sec) = "TypeError" THEN "TypeError"
    ELSE IF PyIn("heading", sec) = "false" THEN "false"
    ELSE IF PyIn("body", sec) = "false" THEN "false"
    ELSE PyIn("b_roll", sec)

RECURSIVE CheckSections(_, _)
CheckSections(items, i) ==
    IF i > Len(items) THEN NoExc
    ELSE IF AllKeysIn(items[i]) = "TypeError"
         THEN Exc("TypeError", <<"argument of type 'int' is not iterable">>)
    ELSE IF AllKeysIn(items[i]) = "false" THEN Exc("ValueError", <<"invalid_response">>)
    ELSE CheckSections(items, i + 1)

ContentNotAllowedCheck(obj) == "error" \in obj.keys

\* obj.get('reason', '')
ReasonOf(obj) == IF "reason" \in obj.keys THEN obj.reason ELSE ""

\* A validation that tests the required keys before the "error" key.
ValidateScriptObjKeysFirst(obj) ==
    IF obj.type # "dict" THEN Exc("ValueError", <<"invalid_response">>)
    ELSE IF ~(RequiredTop \subseteq obj.keys) THEN Exc("ValueError", <<"invalid_response">>)
    ELSE IF ContentNotAllowedCheck(obj)
         THEN Exc("ValueError", <<"content_not_allowed: ", ReasonOf(obj)>>)
    ELSE IF obj.title.t # "str" \/ obj.title.s = ""
         THEN Exc("ValueError", <<"invalid_response">>)
    ELSE IF obj.sections.t # "list" \/ Len(obj.sections.items) = 0
         THEN Exc("ValueError", <<"invalid_response">>)
    ELSE CheckSections(obj.sections.items, 1)

\* _validate_script_obj: NoExc when it returns, else the exception it raises.
ValidateScriptObj(obj) ==
    IF obj.type # "dict" THEN Exc("ValueError", <<"invalid_response">>)
    ELSE IF ContentNotAllowedCheck(obj)
         THEN Exc("ValueError", <<"content_not_allowed: ", ReasonOf(obj)>>)
    ELSE IF ~(RequiredTop \subseteq obj.keys) THEN Exc("ValueError", <<"invalid_response">>)
    ELSE IF obj.title.t # "str" \/ obj.title.s = ""
         THEN Exc("ValueError", <<"invalid_response">>)
    ELSE IF obj.sections.t # "list" \/ Len(obj.sections.items) = 0
         THEN Exc("ValueError", <<"invalid_response">>)
    ELSE CheckSections(obj.sections.items, 1)

\* The decoding of the raw text in generate_script: strip, the ``` split, json.loads,
\* then the salvage of the substring between the first "{" and the last "}".
\*   plain       the text is the JSON document
\*   fence       ```\n<json>\n```        (a part starting with "{" is found for a dict)
\*   fence_json  ```json\n<json>\n```    (no part starts with "{": salvage)
\*   stray       prose around the JSON document (salvage)
\*   garbage     no JSON document in the text
\* A non-dict document carries no braces, so the split and the salvage find nothing.
ParseResponse(text) ==
    IF text.wrap = "garbage" THEN Raised(Exc("ValueError", <<"invalid_response">>), NoObj)
    ELSE IF text.wrap = "plain" THEN Returned(text.obj)
    ELSE IF text.obj.type = "dict" THEN Returned(text.obj)
    ELSE Raised(Exc("ValueError", <<"invalid_response">>), NoObj)

(***************************************************************************)
(* _call_llm_with_retry: tenacity retry, stop_after_attempt(3), on         *)
(* LLMError; every exception of the call is wrapped in LLMError.  Without  *)
(* reraise=True tenacity raises its own RetryError when attempts run out.  *)
(* An oracle entry is [ok, text].                                          *)
(***************************************************************************)
LLM_STOP_AFTER_ATTEMPT == 3

LlmOk(text) == [ok |-> TRUE, text |-> text]
LlmFail == [ok |-> FALSE, text |-> NoText]

\* A retry that allows a fourth attempt.
RECURSIVE LlmAttemptFour(_, _)
LlmAttemptFour(oracle, n) ==
    LET r == At(oracle, n) IN
    IF r.ok THEN [calls |-> n, res |-> Returned(r.text)]
    ELSE IF n >= LLM_STOP_AFTER_ATTEMPT + 1
         THEN [calls |-> n,
               res |-> Raised(Exc("RetryError", <<"RetryError[", "LLMError", "]">>), NoText)]
    ELSE LlmAttemptFour(oracle, n + 1)

RECURSIVE LlmAttempt(_, _)
LlmAttempt(oracle, n) ==
    LET r == At(oracle, n) IN
    IF r.ok THEN [calls |-> n, res |-> Returned(r.text)]
    ELSE IF n >= LLM_STOP_AFTER_ATTEMPT
         THEN [calls |-> n,
               res |-> Raised(Exc("RetryError", <<"RetryError[", "LLMError", "]">>), NoText)]
    ELSE LlmAttempt(oracle, n + 1)

CallLlmWithRetry(oracle) == LlmAttempt(oracle, 1)

\* generate_script: the number of model calls made and the outcome; res.value is
\* the returned object.
GenerateScript(oracle) ==
    LET c == CallLlmWithRetry(oracle) IN
    IF c.res.raised THEN [calls |-> c.calls, res |-> Raised(c.res.exc, NoObj)]
    ELSE LET p == ParseResponse(c.res.value) IN
         IF p.raised THEN [calls |-> c.calls, res |-> p]
         ELSE LET v == ValidateScriptObj(p.value) IN
              IF v # NoExc THEN [calls |-> c.calls, res |-> Raised(v, NoObj)]
              ELSE [calls |-> c.calls, res |-> Returned(p.value)]

(***************************************************************************)
(* HTTP answers of the external services.  status 0 stands for a request   *)
(* that raised (connection error, timeout) instead of answering.           *)
(***************************************************************************)
HttpStatuses == {200, 500, 403}
HttpOutcomes == HttpStatuses \cup {0}

(***************************************************************************)
(* Files.  A path is [kind, slug, stamp, uid, idx]; unused parts are "" or *)
(* 0.  uuid.uuid4() values are distinct: a run draws them from its own run *)
(* number.                                                                 *)
(***************************************************************************)
Path(kind, slug, stamp, uid, idx) ==
    [kind |-> kind, slug |-> slug, stamp |-> stamp, uid |-> uid, idx |-> idx]
NoPath == Path("none", "", 0, 0, 0)

(***************************************************************************)
(* tasks/tts.py                                                            *)
(***************************************************************************)
TTS_CHUNK_SIZE == 5000
ELEVEN_STOP_AFTER_ATTEMPT == 3

\* text[from:to] of a text of `len` characters: the characters from..to-1.
Slice(len, from, to) == [from |-> Min(from, len), to |-> Min(to, len)]

\* A split that steps by one character less than the chunk size.
RECURSIVE ChunkRangeShortStep(_, _)
ChunkRangeShortStep(len, i) ==
    IF i >= len THEN <<>>
    ELSE <<Slice(len, i, i + TTS_CHUNK_SIZE)>> \o ChunkRangeShortStep(len, i + TTS_CHUNK_SIZE - 1)

\* for i in range(0, len, 5000): chunks.append(text[i:i+5000]): the chunks, in
\* order, each the slice of the text it holds.
RECURSIVE ChunkRange(_, _)
ChunkRange(len, i) ==
    IF i >= len THEN <<>>
    ELSE <<Slice(len, i, i + TTS_CHUNK_SIZE)>> \o ChunkRange(len, i + TTS_CHUNK_SIZE)

Chunks(len) == IF len > TTS_CHUNK_SIZE THEN ChunkRange(len, 0) ELSE <<Slice(len, 0, len)>>

\* (The variant ElevenAttemptTwice below gives up after the second attempt.)
\* _call_elevenlabs under its tenacity decorator (3 attempts, reraise=True): the
\* attempt that answers 200 returns the audio; a non-200 answer raises TTSError, a
\* failed request raises RequestException, both retried.  `at` is the index of the
\* first oracle entry this call consumes.
RECURSIVE ElevenAttemptTwice(_, _, _)
ElevenAttemptTwice(oracle, at, n) ==
    LET status == At(oracle, at + n - 1) IN
    IF status = 200 THEN [calls |-> n, ok |-> TRUE]
    ELSE IF n >= ELEVEN_STOP_AFTER_ATTEMPT - 1 THEN [calls |-> n, ok |-> FALSE]
    ELSE ElevenAttemptTwice(oracle, at, n + 1)

RECURSIVE ElevenAttempt(_, _, _)
ElevenAttempt(oracle, at, n) ==
    LET status == At(oracle, at + n - 1) IN
    IF status = 200 THEN [calls |-> n, ok |-> TRUE]
    ELSE IF n >= ELEVEN_STOP_AFTER_ATTEMPT THEN [calls |-> n, ok |-> FALSE]
    ELSE ElevenAttempt(oracle, at, n + 1)

CallElevenlabs(oracle, at) == ElevenAttempt(oracle, at, 1)

\* _call_polly: boto3 missing, a client error and an answer without AudioStream all
\* raise; "audio" is the only answer that returns bytes.
CallPolly(answer) == answer = "audio"

PollyCredsPresent(env) == {"AWS_ACCESS_KEY_ID", "AWS_SECRET_ACCESS_KEY"} \subseteq env

Repeat(x, n) == [i \in 1..n |-> x]

\* A fallback that is taken whenever its credentials are configured.
UsePollyAlways(gotAudio, env) == PollyCredsPresent(env)

\* if audio_data is None and polly_creds_present
UsePolly(gotAudio, env) == ~gotAudio /\ PollyCredsPresent(env)

\* The loop over the chunks of tts_from_text.  st = [i, eAt, pAt, trace, eleven,
\* audio, log]: chunk index, next oracle entries, external calls made,
\* primary-provider calls per chunk, audio segments so far (each with the slice of
\* the text it speaks), and per chunk the calls made for it and the provider that
\* produced its audio.
RECURSIVE TtsLoop(_, _, _, _, _)
TtsLoop(chunks, env, eleven, polly, st) ==
    IF st.i > Len(chunks) THEN [st EXCEPT !.i = 0]
    ELSE
      LET useEleven == "ELEVENLABS_API_KEY" \in env
          e == CallElevenlabs(eleven, st.eAt)
          gotEleven == useEleven /\ e.ok
          usePolly == UsePolly(gotEleven, env)
          gotPolly == usePolly /\ CallPolly(At(polly, st.pAt))
          calls == (IF useEleven THEN Repeat("eleven", e.calls) ELSE <<>>)
                   \o (IF usePolly THEN <<"polly">> ELSE <<>>)
          trace1 == st.trace \o calls
          by == IF gotPolly THEN "polly" ELSE IF gotEleven THEN "eleven" ELSE "none"
          log1 == Append(st.log, [calls |-> calls, by |-> by])
      IN IF ~gotEleven /\ ~gotPolly
         THEN [st EXCEPT !.i = -1, !.trace = trace1, !.log = log1,
                         !.eleven = Append(@, IF useEleven THEN e.calls ELSE 0)]
         ELSE TtsLoop(chunks, env, eleven, polly,
                [i |-> st.i + 1,
                 eAt |-> IF useEleven THEN st.eAt + e.calls ELSE st.eAt,
                 pAt |-> IF usePolly THEN st.pAt + 1 ELSE st.pAt,
                 trace |-> trace1,
                 eleven |-> Append(st.eleven, IF useEleven THEN e.calls ELSE 0),
                 audio |-> Append(st.audio, [by |-> by, from |-> chunks[st.i].from,
                                             to |-> chunks[st.i].to]),
                 log |-> log1])

\* tts_from_text(text, ...): text = [slug, len] (the slug of its first 30 characters
\* and its length), `now` the clock second of datetime.now().
TtsOutputPath(text, now) == Path("voice", text.slug, now, 0, 0)

\* An output that is written as soon as some chunk has audio.
TtsWritesPartial(r, path) == IF Len(r.audio) > 0 THEN {path} ELSE {}

\* The files tts_from_text leaves behind: the chunk files are unlinked, and the
\* output is written after the loop, which the raise inside it never reaches.
TtsWrites(r, path) == IF r.i = -1 THEN {} ELSE {path}

TtsFromText(text, env, eleven, polly, now) ==
    LET r == TtsLoop(Chunks(text.len), env, eleven, polly,
                     [i |-> 1, eAt |-> 1, pAt |-> 1, trace |-> <<>>, eleven |-> <<>>,
                      audio |-> <<>>, log |-> <<>>])
    IN IF r.i = -1
       THEN [res |-> Raised(Exc("OSError", <<"TTS generation failed. Check credentials for ElevenLabs or AWS Polly.">>), NoPath),
             trace |-> r.trace, eleven |-> r.eleven, audio |-> <<>>, log |-> r.log,
             writes |-> TtsWrites(r, TtsOutputPath(text, now))]
       ELSE [res |-> Returned(TtsOutputPath(text, now)),
             trace |-> r.trace, eleven |-> r.eleven, audio |-> r.audio, log |-> r.log,
             writes |-> TtsWrites(r, TtsOutputPath(text, now))]

(***************************************************************************)
(* tasks/assets.py                                                         *)
(***************************************************************************)
\* File names that count the sections from zero.
AssetNameZeroBased(obj, uid, i, role) == Path(role, obj.title.s, 0, uid, i - 1)

\* _get_job_id: the slug of the title and a fresh uuid; idx is the number of the
\* section ({i+1:02d} of the 0-based i of the code), the role "clip" or "slide".
AssetName(obj, uid, i, role) == Path(role, obj.title.s, 0, uid, i)

\* section.get("b_roll", heading), with heading = section.get("heading", "").
BRollQuery(sec) == SecGet(sec, "b_roll", SecGet(sec, "heading", ""))

\* A choice that keeps the clip although its download failed.
ClipChosenWhenFound(hasKey, answer) == hasKey /\ answer.search = "url"

\* Whether the asset of a section is the downloaded clip: asset_path is set only
\* after _download_file has returned.
ClipChosen(hasKey, answer) ==
    hasKey /\ answer.search = "url" /\ answer.download = "ok"

\* One section of build_assets.  answer = [search, download]:
\*   search    "url" (a usable MP4 link) or "none" (no result, no MP4, request error)
\*   download  "ok", "http_error" (raise_for_status raised, nothing written) or
\*             "stream_error" (the body failed after the file was opened)
\* The result also tells what the asset was made from: the query searched for (if
\* a search was made) and the heading read from the section.
AssetForSection(obj, i, hasKey, answer, uid) ==
    LET sec == obj.sections.items[i]
        searched == hasKey
        tried == searched /\ answer.search = "url"
        clip == ClipChosen(hasKey, answer)
        clipPath == AssetName(obj, uid, i, "clip")
        slidePath == AssetName(obj, uid, i, "slide")
    IN [asset |-> IF clip THEN clipPath ELSE slidePath,
        trace |-> (IF searched THEN <<"pexels_search">> ELSE <<>>)
                  \o (IF tried THEN <<"download">> ELSE <<>>),
        writes |-> (IF tried /\ answer.download # "http_error" THEN {clipPath} ELSE {})
                   \cup (IF clip THEN {} ELSE {slidePath}),
        made |-> [queries |-> IF searched THEN <<BRollQuery(sec)>> ELSE <<>>,
                  heading |-> SecGet(sec, "heading", "")]]

RECURSIVE BuildLoop(_, _, _, _, _, _)
BuildLoop(obj, hasKey, oracle, uid, i, acc) ==
    IF i > Len(obj.sections.items) THEN acc
    ELSE LET a == AssetForSection(obj, i, hasKey, At(oracle, i), uid) IN
         BuildLoop(obj, hasKey, oracle, uid, i + 1,
                   [assets |-> Append(acc.assets, a.asset),
                    trace |-> acc.trace \o a.trace,
                    writes |-> acc.writes \cup a.writes,
                    made |-> Append(acc.made, a.made)])

\* build_assets(script_obj, storage_path, pexels_api_key)
BuildAssets(obj, hasKey, oracle, uid) ==
    BuildLoop(obj, hasKey, oracle, uid, 1,
              [assets |-> <<>>, trace |-> <<>>, writes |-> {}, made |-> <<>>])

(***************************************************************************)
(* tasks/composer.py                                                       *)
(***************************************************************************)
\* final_output when output_path is a directory: f"final_{{job_id}}.mp4".  The
\* doubled braces are a literal "{job_id}": the stem of the voice file, read
\* into job_id on the line before, is not substituted.
ComposeFinalOutput(voiceStem) == Path("final_mp4", "{job_id}", 0, 0, 0)

\* output_path.with_suffix(".srt")
SrtPath(final) == [final EXCEPT !.kind = "final_srt"]

\* Rational numbers [num, den] with den > 0 stand for the floats of the code; the
\* arithmetic on them is exact.
Rat(num, den) == [num |-> num, den |-> den]
RatMul(a, b) == Rat(a.num * b.num, a.den * b.den)
RatAdd(a, b) == Rat(a.num * b.den + b.num * a.den, a.den * b.den)
RatEq(a, b) == a.num * b.den = b.num * a.den

RECURSIVE Gcd(_, _)
Gcd(a, b) == IF b = 0 THEN a ELSE Gcd(b, a % b)

\* The same number in lowest terms.
RatNorm(r) == LET g == Gcd(r.num, r.den) IN Rat(r.num \div g, r.den \div g)

\* len((sec.get("body", "") + " " + sec.get("heading", "")).split()), 1 when 0.
SectionWordCount(sec) ==
    LET count == (IF "body" \in sec.names THEN sec.bw ELSE 0)
                 + (IF "heading" \in sec.names THEN sec.hw ELSE 0)
    IN IF count = 0 THEN 1 ELSE count

RECURSIVE SumSeq(_)
SumSeq(seq) == IF seq = <<>> THEN 0 ELSE seq[1] + SumSeq(Tail(seq))

\* A split that gives every section the same time.
SectionTimingEqualSplit(count, total_words, n, duration) == RatMul(Rat(1, n), duration)

\* duration = (count / total_words) * total_audio_duration
SectionTiming(count, total_words, n, duration) == RatMul(Rat(count, total_words), duration)

\* _estimate_section_timings(script_obj, total_audio_duration)
EstimateSectionTimings(obj, duration) ==
    LET sections == IF "sections" \in obj.keys THEN obj.sections.items ELSE <<>>
        counts == [i \in 1..Len(sections) |-> SectionWordCount(sections[i])]
        total_words == SumSeq(counts)
    IN IF Len(sections) = 0 THEN <<>>
       ELSE IF total_words = 0
       THEN [i \in 1..Len(sections) |-> RatMul(duration, Rat(1, Len(sections)))]
       ELSE [i \in 1..Len(sections) |->
                SectionTiming(counts[i], total_words, Len(sections), duration)]

\* The number of timings: one per section.
NumTimings(obj) == Len(obj.sections.items)

\* _format_srt_time(seconds): the text HH:MM:SS,mmm by its four numbers; int()
\* cuts the fraction of a second down to whole milliseconds.
FormatSrtTime(t) ==
    LET seconds == t.num \div t.den
        millis == ((t.num - seconds * t.den) * 1000) \div t.den
        minutes == seconds \div 60
    IN [hours |-> minutes \div 60, minutes |-> minutes % 60, seconds |-> seconds % 60,
        millis |-> millis]

\* A cue that ends `duration` after the start of the file.
SrtEndTimeFromZero(current_time, duration) == RatNorm(duration)

\* end_time = current_time + duration
SrtEndTime(current_time, duration) == RatNorm(RatAdd(current_time, duration))

\* The loop of _generate_srt over zip(sections, timings) from position i on:
\* the cues written, each with its number, its two time stamps and the number
\* of words of its text, section.get("body", "").
RECURSIVE SrtCues(_, _, _, _)
SrtCues(sections, timings, i, current_time) ==
    IF i > Min(Len(sections), Len(timings)) THEN <<>>
    ELSE LET end_time == SrtEndTime(current_time, timings[i])
         IN <<[number |-> i,
               start |-> FormatSrtTime(current_time),
               end |-> FormatSrtTime(end_time),
               words |-> IF "body" \in sections[i].names THEN sections[i].bw ELSE 0]>>
            \o SrtCues(sections, timings, i + 1, end_time)

\* _generate_srt(script_obj, timings, output_path): the cues of the file.
GenerateSrt(obj, timings) ==
    SrtCues(IF "sections" \in obj.keys THEN obj.sections.items ELSE <<>>, timings, 1,
            Rat(0, 1))

\* A loop that makes a clip of every asset, on disk or not.
ClipIndicesAll(assets, n, existing) == 1..Min(Len(assets), n)

\* The clips of the loop over zip(assets, timings): the indices whose asset exists.
ClipIndices(assets, n, existing) ==
    {i \in 1..Min(Len(assets), n) : assets[i] \in existing}

\* if i > 0: clip = clip.with_effects([CrossFadeIn(duration=0.5)]), where i is
\* the position of the asset in zip(assets, timings), counted here from 1.
CrossFadeIn(i) == i > 1

\* The list `clips` after the loop: one clip per asset that is on disk, in the
\* order of the assets, each with the position of its asset and its cross-fade.
RECURSIVE ClipsFrom(_, _, _)
ClipsFrom(i, last, kept) ==
    IF i > last THEN <<>>
    ELSE (IF i \in kept THEN <<[asset |-> i, crossfade |-> CrossFadeIn(i)]>> ELSE <<>>)
         \o ClipsFrom(i + 1, last, kept)

\* compose_video(script_obj, voice_file, assets, output_path): `existing` are the
\* files on disk, answer = [audio, render] what the rendering library does
\* ("ok" or "error") when it loads the narration and when it writes the video.
ComposeVideo(obj, voice, assets, existing, answer) ==
    LET final == ComposeFinalOutput(voice.slug)
        clips == ClipIndices(assets, NumTimings(obj), existing)
    IN IF voice \notin existing
       THEN [res |-> Raised(Exc("FileNotFoundError", <<"Voice file not found: ">>), NoPath),
             writes |-> {}, clips |-> <<>>]
       ELSE IF answer.audio = "error"
       THEN [res |-> Raised(Exc("OSError", <<"audio could not be loaded">>), NoPath),
             writes |-> {}, clips |-> <<>>]
       ELSE IF clips = {}
       THEN [res |-> Raised(Exc("ValueError", <<"No clips could be created.">>), NoPath),
             writes |-> {}, clips |-> <<>>]
       ELSE IF answer.render = "error"
       THEN [res |-> Raised(Exc("OSError", <<"video could not be written">>), NoPath),
             writes |-> {}, clips |-> <<>>]
       ELSE [res |-> Returned(final), writes |-> {final, SrtPath(final)},
             clips |-> ClipsFrom(1, Min(Len(assets), NumTimings(obj)), clips)]

(***************************************************************************)
(* tasks/thumbnail.py                                                      *)
(***************************************************************************)
ThumbnailPath(obj, uid) == Path("thumbnail", obj.title.s, 0, uid, 0)

\* generate_thumbnail(script_obj, storage_path, ai_image_api_key): answer is what
\* the image service does: "ok", "api_error", "download_error", "no_openai".
\* An AI branch that counts every attempt as a success.
GeneratedByAiWhenTried(hasKey, answer) == hasKey

\* generated_by_ai: True only when the key is set and _generate_with_dalle came
\* back without an exception.
GeneratedByAi(hasKey, answer) == hasKey /\ answer = "ok"

GenerateThumbnail(obj, hasKey, answer, uid) ==
    LET byAi == GeneratedByAi(hasKey, answer) IN
    [res |-> Returned(ThumbnailPath(obj, uid)),
     trace |-> (IF hasKey /\ answer # "no_openai" THEN <<"dalle">> ELSE <<>>)
               \o (IF byAi THEN <<>> ELSE <<"pillow">>),
     byAi |-> byAi,
     writes |-> {ThumbnailPath(obj, uid)}]

(***************************************************************************)
(* tasks/uploader.py                                                       *)
(***************************************************************************)
UPLOAD_STOP_AFTER_ATTEMPT == 5
THUMBNAIL_STOP_AFTER_ATTEMPT == 3

UploadResult(status, id) == [status |-> status, id |-> id]
NoResult == UploadResult("none", "")

UploadErr(what) == Exc("UploadError", <<what>>)
RequestErr == Exc("ConnectionError", <<"request failed">>)
RetryErr == Exc("RetryError", <<"RetryError[", "RetriableError", "]">>)

\* A token exchange whose failure goes unnoticed.
GetAccessTokenLenient(status) == NoExc

\* _get_access_token: one POST; anything but 200 raises UploadError.
GetAccessToken(status) ==
    IF status = 0 THEN RequestErr
    ELSE IF status # 200 THEN UploadErr("Failed to refresh token: ")
    ELSE NoExc

\* One execution of the body of _upload_file_resumable: the exception it raises
\* (NoExc when it returns the video id) and the requests it sent.
\* A body that sends the bytes whatever the answer to the session request was.
ResumableBodyPutAnyway(init, location, put) ==
    IF put \notin {200, 201}
    THEN [exc |-> UploadErr("Failed to upload video bytes: "), trace |-> <<"init", "put">>]
    ELSE [exc |-> NoExc, trace |-> <<"init", "put">>]

\* init, put: the status of the answer (0: the request itself failed);
\* location: the answer to the session request has a Location header.
ResumableBody(init, location, put) ==
    IF init = 0 THEN [exc |-> RequestErr, trace |-> <<"init">>]
    ELSE IF init >= 500
    THEN [exc |-> Exc("RetriableError", <<"Server error initiating upload: ">>),
          trace |-> <<"init">>]
    ELSE IF init # 200
    THEN [exc |-> UploadErr("Failed to initiate upload: "), trace |-> <<"init">>]
    ELSE IF ~location
    THEN [exc |-> UploadErr("No upload URL returned in Location header"),
          trace |-> <<"init">>]
    ELSE IF put = 0 THEN [exc |-> RequestErr, trace |-> <<"init", "put">>]
    ELSE IF put >= 500
    THEN [exc |-> Exc("RetriableError", <<"Server error uploading bytes: ">>),
          trace |-> <<"init", "put">>]
    ELSE IF put \notin {200, 201}
    THEN [exc |-> UploadErr("Failed to upload video bytes: "), trace |-> <<"init", "put">>]
    ELSE [exc |-> NoExc, trace |-> <<"init", "put">>]

\* _upload_file_resumable under its tenacity decorator: 5 attempts, retried on
\* RetriableError only, RetryError when the attempts run out (no reraise).
RECURSIVE UploadAttempt(_, _, _)
UploadAttempt(oracle, n, trace) ==
    LET b == ResumableBody(At(oracle.init, n), oracle.location, At(oracle.put, n))
        t == trace \o b.trace
    IN IF b.exc.type # "RetriableError" THEN [attempts |-> n, exc |-> b.exc, trace |-> t]
       ELSE IF n >= UPLOAD_STOP_AFTER_ATTEMPT
       THEN [attempts |-> n, exc |-> RetryErr, trace |-> t]
       ELSE UploadAttempt(oracle, n + 1, t)

\* A resumable upload that stops after six attempts instead of five.
RECURSIVE UploadAttemptSix(_, _, _)
UploadAttemptSix(oracle, n, trace) ==
    LET b == ResumableBody(At(oracle.init, n), oracle.location, At(oracle.put, n))
        t == trace \o b.trace
    IN IF b.exc.type # "RetriableError" THEN [attempts |-> n, exc |-> b.exc, trace |-> t]
       ELSE IF n > UPLOAD_STOP_AFTER_ATTEMPT
       THEN [attempts |-> n, exc |-> RetryErr, trace |-> t]
       ELSE UploadAttemptSix(oracle, n + 1, t)

UploadFileResumableSix(oracle) == UploadAttemptSix(oracle, 1, <<>>)

UploadFileResumable(oracle) == UploadAttempt(oracle, 1, <<>>)

\* _set_thumbnail under its tenacity decorator: 3 attempts.
RECURSIVE ThumbAttempt(_, _, _)
ThumbAttempt(oracle, n, trace) ==
    LET status == At(oracle.thumb, n)
        t == Append(trace, "thumb")
    IN IF status = 0 THEN [attempts |-> n, exc |-> RequestErr, trace |-> t]
       ELSE IF status >= 500
       THEN IF n >= THUMBNAIL_STOP_AFTER_ATTEMPT
            THEN [attempts |-> n, exc |-> RetryErr, trace |-> t]
            ELSE ThumbAttempt(oracle, n + 1, t)
       ELSE IF status # 200
       THEN [attempts |-> n, exc |-> UploadErr("Failed to set thumbnail: "), trace |-> t]
       ELSE [attempts |-> n, exc |-> NoExc, trace |-> t]

SetThumbnail(oracle) == ThumbAttempt(oracle, 1, <<>>)

YoutubeCreds == {"YOUTUBE_CLIENT_ID", "YOUTUBE_CLIENT_SECRET", "YOUTUBE_REFRESH_TOKEN"}

\* A dictionary (the credentials argument, os.environ) is a function from its
\* keys to strings.  d.get(key, default):
DictGet(d, key, default) == IF key \in DOMAIN d THEN d[key] ELSE default

\* The dictionary that gives every one of `keys` the value `value`.
SetTo(keys, value) == [k \in keys |-> value]

\* a or b on strings: a unless it is empty (None is taken as the empty string).
PyOr(a, b) == IF a # "" THEN a ELSE b

\* str.lower() on the values an on/off setting is given.
Lower(str) ==
    CASE str \in {"True", "TRUE", "true"} -> "true"
      [] str \in {"False", "FALSE", "false"} -> "false"
      [] str \in {"Yes", "yes"} -> "yes"
      [] OTHER -> str

\* Credentials that count as complete as soon as one of the three is there.
CredsPresentAny(credentials, env) ==
    \E k \in YoutubeCreds : PyOr(DictGet(credentials, k, ""), DictGet(env, k, "")) # ""

\* client_id and client_secret and refresh_token, each of them
\* creds.get(k) or os.environ.get(k)
CredsPresent(credentials, env) ==
    \A k \in YoutubeCreds : PyOr(DictGet(credentials, k, ""), DictGet(env, k, "")) # ""

\* A visibility that follows the publish argument only.
PrivacyStatusFlagOnly(publish, env) == IF publish THEN "public" ELSE "private"

\* auto_publish = os.environ.get("AUTO_PUBLISH", "False").lower() == "true";
\* should_publish = publish or auto_publish
PrivacyStatus(publish, env) ==
    IF publish \/ Lower(DictGet(env, "AUTO_PUBLISH", "False")) = "true"
    THEN "public" ELSE "private"

\* upload_video(video_path, thumbnail_path, title, desc, tags, publish, credentials):
\* oracle = [token, init, put, thumb, location, video, row]: the answers to the
\* token request and to the successive session, byte and thumbnail requests,
\* the id in the answer to the byte upload and the id the database gives to a
\* new PendingUpload row.  trace: the requests sent; pending: the ids of the
\* PendingUpload rows saved; privacy: the privacyStatus of the metadata.
UploadVideo(credentials, publish, env, thumbExists, oracle) ==
    IF ~CredsPresent(credentials, env)
    THEN [res |-> Returned(UploadResult("pending_upload", oracle.row)),
          trace |-> <<>>, pending |-> <<oracle.row>>, privacy |-> "none",
          attempts |-> 0, thumbAttempts |-> 0]
    ELSE
      LET tok == GetAccessToken(oracle.token)
          up == UploadFileResumable(oracle)
          th == SetThumbnail(oracle)
          privacy == PrivacyStatus(publish, env)
      IN IF tok # NoExc
         THEN [res |-> Raised(tok, NoResult), trace |-> <<"token">>, pending |-> <<>>,
               privacy |-> privacy, attempts |-> 0, thumbAttempts |-> 0]
         ELSE IF up.exc # NoExc
         THEN [res |-> Raised(up.exc, NoResult), trace |-> <<"token">> \o up.trace,
               pending |-> <<>>, privacy |-> privacy,
               attempts |-> up.attempts, thumbAttempts |-> 0]
         ELSE IF ~thumbExists
         THEN [res |-> Returned(UploadResult("uploaded", oracle.video)),
               trace |-> <<"token">> \o up.trace, pending |-> <<>>, privacy |-> privacy,
               attempts |-> up.attempts, thumbAttempts |-> 0]
         ELSE IF th.exc # NoExc
         THEN [res |-> Raised(th.exc, NoResult), trace |-> <<"token">> \o up.trace \o th.trace,
               pending |-> <<>>, privacy |-> privacy,
               attempts |-> up.attempts, thumbAttempts |-> th.attempts]
         ELSE [res |-> Returned(UploadResult("uploaded", oracle.video)),
               trace |-> <<"token">> \o up.trace \o th.trace,
               pending |-> <<>>, privacy |-> privacy,
               attempts |-> up.attempts, thumbAttempts |-> th.attempts]

(***************************************************************************)
(* Inputs: the answers the external services can give.                     *)
(***************************************************************************)
FullSection == Section("dict", SecKeys)

\* A well-formed answer with n sections and a narration text of `chars` characters.
GoodObj(n, chars) ==
    Obj("dict", RequiredTop, JStr("T"), "hook", JList(Repeat(FullSection, n)), "", chars)

RejectObj == Obj("dict", {"error", "reason"}, JStr(""), "", JNotList, "X", 0)

\* Sections that are JSON lists naming the three keys.
ListSectionObj ==
    Obj("dict", RequiredTop, JStr("T"), "hook", JList(<<Section("list", SecKeys)>>), "", 40)

\* The answers to the successive model calls: k failed calls, then a text (the
\* last entry of an oracle answers every later call too).
LlmFailures(k) == [i \in 1..k |-> LlmFail]
LlmOracles(texts) ==
    {LlmFailures(k) \o <<LlmOk(t)>> : k \in 0..(LLM_STOP_AFTER_ATTEMPT - 1), t \in texts}
    \cup {<<LlmFail>>}

AssetAnswer(search, download) == [search |-> search, download |-> download]
ComposeAnswer(audio, render) == [audio |-> audio, render |-> render]
UploadOracle(token, init, put, thumb) ==
    [token |-> token, init |-> init, put |-> put, thumb |-> thumb,
     location |-> TRUE, video |-> "videoId", row |-> "1"]

\* The answers drawn when whole pipelines run side by side: every stage succeeds
\* or fails in each of the ways the orchestrator tells apart.
MainWorld ==
    [llm |-> { <<LlmOk(Text("fence_json", GoodObj(2, TTS_CHUNK_SIZE + 1)))>>,
               <<LlmFail, LlmOk(Text("plain", RejectObj))>>,
               <<LlmOk(Text("plain", ListSectionObj))>>,
               <<LlmFail>> },
     ttsEnv |-> { {}, {"ELEVENLABS_API_KEY", "AWS_ACCESS_KEY_ID", "AWS_SECRET_ACCESS_KEY"} },
     eleven |-> { <<200>>, <<500>> },
     polly |-> { <<"audio">>, <<"exc">> },
     pexelsKey |-> BOOLEAN,
     assets |-> { <<AssetAnswer("url", "ok")>> },
     compose |-> { ComposeAnswer("ok", "ok"), ComposeAnswer("error", "ok") },
     thumbnail |-> { "ok", "api_error" },
     uploadEnv |-> { SetTo(YoutubeCreds, "set"), EmptyMap },
     upload |-> { UploadOracle(200, <<200>>, <<200>>, <<200>>),
                  UploadOracle(403, <<200>>, <<200>>, <<200>>) },
     mkdir |-> {"ok"}, db |-> {"ok"}, split |-> FALSE]

\* The answers drawn for a single pipeline run: retries, exhausted retries and
\* every failure of every external call.
RunTexts ==
    { Text("plain", GoodObj(1, 40)), Text("fence_json", GoodObj(2, TTS_CHUNK_SIZE + 1)),
      Text("plain", RejectObj), Text("garbage", NoObj), Text("plain", ListSectionObj) }

RunWorld ==
    [llm |-> LlmOracles(RunTexts),
     ttsEnv |-> SUBSET {"ELEVENLABS_API_KEY", "AWS_ACCESS_KEY_ID", "AWS_SECRET_ACCESS_KEY"},
     eleven |-> { <<200>>, <<500>>, <<0>>, <<500, 200>>, <<500, 500, 200>>,
                  <<200, 500>>, <<403, 0, 200, 500>> },
     polly |-> { <<"audio">>, <<"exc">>, <<"noaudio">>, <<"audio", "exc">> },
     pexelsKey |-> BOOLEAN,
     assets |-> { <<AssetAnswer("url", "ok")>>, <<AssetAnswer("none", "ok")>>,
                  <<AssetAnswer("url", "http_error")>>,
                  <<AssetAnswer("url", "ok"), AssetAnswer("url", "stream_error")>> },
     compose |-> [audio : {"ok", "error"}, render : {"ok", "error"}],
     thumbnail |-> { "ok", "api_error", "download_error", "no_openai" },
     uploadEnv |-> { SetTo(YoutubeCreds, "set"),
                     SetTo(YoutubeCreds \cup {"AUTO_PUBLISH"}, "true"), EmptyMap,
                     SetTo(YoutubeCreds \ {"YOUTUBE_REFRESH_TOKEN"}, "set") },
     upload |-> [token : {200, 403, 0},
                 init : {<<200>>, <<500>>, <<403>>, <<500, 200>>, <<500, 500, 500, 500, 200>>},
                 put : {<<200>>, <<500>>, <<403>>, <<500, 201>>, <<500, 500, 500, 500, 200>>},
                 thumb : {<<200>>, <<500>>, <<403>>, <<500, 500, 200>>},
                 location : {TRUE}, video : {"videoId"}, row : {"1"}],
     mkdir |-> {"ok"}, db |-> {"ok"}, split |-> FALSE]

(***************************************************************************)
(* State.                                                                  *)
(***************************************************************************)
VARIABLES
    jobs,      \* the jobs table: id -> [status, niche, topic_hint, created_at, metadata]
    queue,     \* the RQ queue: job ids of the enqueued run_pipeline invocations
    pc,        \* per worker: where its run_pipeline invocation stands
    run,       \* per worker: the locals of the invocation and its history
    fs,        \* files written: [path, job]
    now,       \* the clock, in seconds
    started,   \* number of invocations started so far (numbers the runs)
    requeued,  \* number of re-deliveries so far
    probe,     \* stage functions applied on their own: [fn, input, out]
    submit     \* the submitter: where enqueue_job stands, and what it has done

vars == <<jobs, queue, pc, run, fs, now, started, requeued, probe, submit>>

Workers == {"w1", "w2"}

\* A row of the jobs table, inserted at clock second `created` (the column default
\* datetime.utcnow of created_at).
JobAt(status, niche, topic, created) ==
    [status |-> status, niche |-> niche, topic_hint |-> topic, created_at |-> created,
     metadata |-> EmptyMap]

Job(status, niche, topic) == JobAt(status, niche, topic, 0)

\* The external calls of the stage an invocation ran last: the requests in order,
\* the model calls, the primary-provider calls per chunk, the executions of the
\* resumable upload and of the thumbnail request; for the upload also the
\* environment it read and the ids of the PendingUpload rows it saved.
NoCalls ==
    [stage |-> "none", trace |-> <<>>, llm |-> 0, eleven |-> <<>>, attempts |-> 0,
     thumbAttempts |-> 0, env |-> EmptyMap, pending |-> <<>>]

\* An update of _update_job_status between its query and its commit: the
\* arguments, the row the query returned (<<>> when none) and the step that
\* follows the call.
NoUpdate == [status |-> "none", metadata |-> EmptyMap, read |-> <<>>, next |-> "none"]

\* db: the answers the database can give this invocation ("ok", or "error": the
\* query or the commit raises); split: whether the query and the commit of its
\* updates are separate steps (they are whenever someone else can write the row
\* in between).
Idle ==
    [job |-> 0, id |-> 0, entry |-> "none", api_key |-> FALSE,
     script_obj |-> NoObj, voice_path |-> NoPath, assets_paths |-> <<>>,
     final_video_path |-> NoPath, thumbnail_path |-> NoPath, upload_result |-> NoResult,
     written |-> <<>>, stages |-> <<>>, raisedIn |-> "none", outcome |-> NoExc,
     calls |-> NoCalls, db |-> {"ok"}, split |-> FALSE, update |-> NoUpdate]

NoProbe == [fn |-> "none", input |-> <<>>, out |-> <<>>]

\* The submitter at rest: pc is "idle" or "half" (one of the two steps of a
\* submission done); sent are the calls of queue.enqueue that were accepted,
\* returned and raised the job ids of the submissions that returned and raised.
NoSubmit ==
    [pc |-> "idle", path |-> "none", job_id |-> 0, sent |-> <<>>, returned |-> <<>>,
     raised |-> <<>>]

Init ==
    /\ jobs = EmptyMap
    /\ queue = <<>>
    /\ pc = [w \in Workers |-> "idle"]
    /\ run = [w \in Workers |-> Idle]
    /\ fs = {}
    /\ now = 0
    /\ started = 0
    /\ requeued = 0
    /\ submit = NoSubmit
    /\ probe = NoProbe

(***************************************************************************)
(* worker.py                                                               *)
(***************************************************************************)
\* str(p) of a path, str(e) of an exception: kept as tagged values.
StrOfPath(p) == [str |-> p]
StrOfExc(e) == [str |-> e.msg]

\* An update whose commit does not reach the store.
UpdateJobStatusNoCommit(table, job_id, status, metadata) == table

\* An update that replaces the stored metadata instead of merging into it.
UpdateJobStatusReplace(table, job_id, status, metadata) ==
    IF job_id \notin DOMAIN table THEN table
    ELSE [table EXCEPT ![job_id] =
            [@ EXCEPT !.status = status,
                      !.metadata = IF DOMAIN metadata # {} THEN metadata ELSE @]]

\* An update that inserts the row when the query finds none.
UpdateJobStatusUpsert(table, job_id, status, metadata) ==
    [j \in (DOMAIN table) \cup {job_id} |->
        IF j # job_id THEN table[j]
        ELSE IF j \in DOMAIN table
             THEN [table[j] EXCEPT !.status = status,
                                   !.metadata = IF DOMAIN metadata # {} THEN Merge(@, metadata) ELSE @]
             ELSE [JobAt(status, "niche", "topic", 0) EXCEPT !.metadata = metadata]]

\* _update_job_status(job_id, status, metadata): the table after the call.  A job
\* without metadata (None) reads as the empty mapping; `if metadata:` skips an
\* empty or missing argument; no row, no change.
UpdateJobStatus(table, job_id, status, metadata) ==
    IF job_id \notin DOMAIN table THEN table
    ELSE [table EXCEPT ![job_id] =
            [@ EXCEPT !.status = status,
                      !.metadata = IF DOMAIN metadata # {} THEN Merge(@, metadata) ELSE @]]

\* An except branch that puts the job back to queued.
FailedStatusRequeued == "queued"

\* An except branch that parks the job as a pending upload.
FailedStatusPending == "pending_upload"

\* The status and the metadata of the except branch of run_pipeline.
FailedStatus == "failed"

\* An except branch that stores no error.
ErrorMetadataNone(e) == EmptyMap
ErrorMetadata(e) == [error |-> StrOfExc(e)]

\* A final status that ignores the upload result.
FinalStatusCompleted(upload_result) == "completed"

\* final_status of run_pipeline.
FinalStatus(upload_result) ==
    IF upload_result.status = "uploaded" THEN "completed" ELSE "pending_upload"

\* An orchestrator that does nothing for a job already completed.
FirstStageUnlessCompleted(entryStatus) ==
    IF entryStatus = "completed" THEN "done" ELSE "script"

\* The program point run_pipeline goes to after the "processing" update.
FirstStage(entryStatus) == "script"

\* enqueue_job / POST /enqueue: a row in status queued, committed, then one
\* invocation enqueued with its id.
EnqueueJob(maxJobs) ==
    /\ Cardinality(DOMAIN jobs) < maxJobs
    /\ LET id == Cardinality(DOMAIN jobs) + 1 IN
       /\ jobs' = [j \in (DOMAIN jobs) \cup {id} |->
                     IF j = id THEN JobAt("queued", "niche", "topic", now) ELSE jobs[j]]
       /\ queue' = Append(queue, id)
    /\ UNCHANGED <<pc, run, fs, now, started, requeued, probe, submit>>

\* The callers of queue.enqueue: the command line (enqueue_job) and POST /enqueue.
SubmitPaths == {"cli", "api"}

\* The arguments of queue.enqueue(run_pipeline, job_id=job.id, ...,
\* job_timeout='1h'[, retry=...]); only the command line passes retry.
EnqueueArgs(path, job_id) ==
    [job_id |-> job_id, job_timeout |-> "1h",
     retry |-> IF path = "cli" THEN "Namespace(max=3, interval=[10, 30, 60])" ELSE "none"]

\* A submission that enqueues the invocation before it commits the row.
SubmitOrderEnqueueFirst == <<"enqueue", "commit">>

\* The two steps of a submission, in the order of the code: session.commit()
\* of the new row, then queue.enqueue.
SubmitOrder == <<"commit", "enqueue">>

\* One step of the submission of job `id`; `last`: it is the second step.
\* commit: the row exists in status queued.  enqueue: the queue accepts the
\* invocation, or the call raises and the submission ends there.
SubmitDo(step, path, id, last) ==
    IF step = "commit"
    THEN /\ jobs' = [j \in (DOMAIN jobs) \cup {id} |->
                       IF j = id THEN JobAt("queued", "niche", "topic", now) ELSE jobs[j]]
         /\ queue' = queue
         /\ submit' = [submit EXCEPT !.pc = IF last THEN "idle" ELSE "half",
                                     !.path = path, !.job_id = id,
                                     !.returned = IF last THEN Append(@, id) ELSE @]
    ELSE \E answer \in {"ok", "error"} :
         /\ jobs' = jobs
         /\ queue' = IF answer = "ok" THEN Append(queue, id) ELSE queue
         /\ submit' = IF answer = "ok"
                      THEN [submit EXCEPT !.pc = IF last THEN "idle" ELSE "half",
                                          !.path = path, !.job_id = id,
                                          !.sent = Append(@, EnqueueArgs(path, id)),
                                          !.returned = IF last THEN Append(@, id) ELSE @]
                      ELSE [submit EXCEPT !.pc = "idle", !.path = path, !.job_id = id,
                                          !.raised = Append(@, id)]

\* enqueue_job / POST /enqueue up to and including its first step.
SubmitFirst ==
    /\ submit.pc = "idle"
    /\ Len(submit.returned) + Len(submit.raised) < MaxJobs
    /\ \E path \in SubmitPaths :
         SubmitDo(SubmitOrder[1], path, Len(submit.returned) + Len(submit.raised) + 1, FALSE)
    /\ UNCHANGED <<pc, run, fs, now, started, requeued, probe>>

\* The second step of the submission, and its return.
SubmitSecond ==
    /\ submit.pc = "half"
    /\ SubmitDo(SubmitOrder[2], submit.path, submit.job_id, TRUE)
    /\ UNCHANGED <<pc, run, fs, now, started, requeued, probe>>

Running(j) == \E w \in Workers : pc[w] # "idle" /\ run[w].job = j
Queued(j) == \E i \in 1..Len(queue) : queue[i] = j

\* A finished job is delivered again (RQ retry of a failed job, or an explicit
\* re-submission of the same invocation).  The queue hands a job to one worker at
\* a time.
RequeueJob ==
    /\ requeued < MaxRequeues
    /\ \E j \in DOMAIN jobs :
         /\ ~Running(j) /\ ~Queued(j)
         /\ queue' = Append(queue, j)
    /\ requeued' = requeued + 1
    /\ UNCHANGED <<jobs, pc, run, fs, now, started, probe, submit>>

\* A second passes.  The clock is read by tts_from_text only.
Tick ==
    /\ now < MaxClock
    /\ \E w \in Workers : pc[w] = "tts"
    /\ now' = now + 1
    /\ UNCHANGED <<jobs, queue, pc, run, fs, started, requeued, probe, submit>>

\* The status actually stored by an update (nothing when the row does not exist).
Wrote(w, status) ==
    IF run[w].job \in DOMAIN jobs THEN Append(run[w].written, status) ELSE run[w].written

\* The status of the row of job_id, "none" when there is no such row.
StatusOf(table, job_id) == IF job_id \in DOMAIN table THEN table[job_id].status ELSE "none"

\* run_pipeline up to the first stage: the worker takes the invocation, writes
\* "processing" (a database error is logged and swallowed), creates the storage
\* directory outside the try block (an OSError of mkdir leaves run_pipeline at
\* once), reads OPENAI_API_KEY.
StartPipelineIn(w, world) ==
    /\ pc[w] = "idle"
    /\ queue # <<>>
    /\ LET j == Head(queue) IN
       \E key \in BOOLEAN, answer \in world.db, dir \in world.mkdir :
          LET r == [Idle EXCEPT !.job = j, !.id = started + 1, !.api_key = key,
                                !.entry = StatusOf(jobs, j),
                                !.written = IF j \in DOMAIN jobs /\ answer = "ok"
                                            THEN <<"processing">> ELSE <<>>,
                                !.db = world.db, !.split = world.split]
          IN /\ jobs' = IF answer = "ok"
                        THEN UpdateJobStatus(jobs, j, "processing", EmptyMap) ELSE jobs
             /\ IF dir = "ok"
                THEN /\ run' = [run EXCEPT ![w] = r]
                     /\ pc' = [pc EXCEPT ![w] = FirstStage(StatusOf(jobs, j))]
                ELSE /\ run' = [run EXCEPT ![w] =
                                  [r EXCEPT !.raisedIn = "setup",
                                            !.outcome = Exc("OSError", <<"mkdir">>)]]
                     /\ pc' = [pc EXCEPT ![w] = "done"]
    /\ queue' = Tail(queue)
    /\ started' = started + 1
    /\ UNCHANGED <<fs, now, requeued, probe, submit>>

\* The same with a database and a storage directory that answer.
StartPipeline(w) == StartPipelineIn(w, MainWorld)

\* _update_job_status called by run_pipeline: `locals` are the invocation's
\* locals after the stage, `next` the step after the call.  An error of the
\* database is caught inside the call: nothing is stored and run_pipeline goes
\* on.  With split, this step is the query and CommitUpdate the commit.
Update(w, status, metadata, next, locals) ==
    IF run[w].split
    THEN /\ jobs' = jobs
         /\ run' = [run EXCEPT ![w] =
                      [locals EXCEPT !.update =
                          [status |-> status, metadata |-> metadata, next |-> next,
                           read |-> IF run[w].job \in DOMAIN jobs
                                    THEN <<jobs[run[w].job]>> ELSE <<>>]]]
         /\ pc' = [pc EXCEPT ![w] = "commit"]
    ELSE \E answer \in run[w].db :
           /\ jobs' = IF answer = "ok"
                      THEN UpdateJobStatus(jobs, run[w].job, status, metadata) ELSE jobs
           /\ run' = [run EXCEPT ![w] =
                        [locals EXCEPT !.written = IF answer = "ok" THEN Wrote(w, status) ELSE @]]
           /\ pc' = [pc EXCEPT ![w] = next]

\* session.commit() of an update whose query was an earlier step: the UPDATE
\* writes the columns whose value differs from what the query loaded, computed
\* from the row as it was loaded.
CommitUpdate(w) ==
    /\ pc[w] = "commit"
    /\ LET u == run[w].update
           j == run[w].job
       IN /\ jobs' = IF u.read = <<>> \/ j \notin DOMAIN jobs THEN jobs
                     ELSE LET old == u.read[1]
                              new == UpdateJobStatus([i \in {j} |-> old], j, u.status, u.metadata)[j]
                          IN [jobs EXCEPT ![j] =
                                [@ EXCEPT !.status = IF new.status # old.status THEN new.status ELSE @,
                                          !.metadata = IF new.metadata # old.metadata
                                                       THEN new.metadata ELSE @]]
          /\ run' = [run EXCEPT ![w] =
                       [@ EXCEPT !.update = NoUpdate,
                                 !.written = IF u.read # <<>> THEN Append(@, u.status) ELSE @]]
          /\ pc' = [pc EXCEPT ![w] = u.next]
    /\ UNCHANGED <<queue, fs, now, started, requeued, probe, submit>>

\* The except branch: the error is stored, the status set to failed, the
\* exception re-raised to the caller.
Fail(w, stage, e, calls, writes) ==
    /\ Update(w, FailedStatus, ErrorMetadata(e), "done",
              [run[w] EXCEPT !.raisedIn = stage, !.outcome = e, !.calls = calls,
                             !.stages = IF stage = "text" THEN @ ELSE Append(@, stage)])
    /\ fs' = fs \cup {[path |-> p, job |-> run[w].job] : p \in writes}

\* A stage returned: its output is merged into the job row with the new status.
Advance(w, stage, status, metadata, next, locals, calls, writes) ==
    /\ Update(w, status, metadata, next,
              [locals EXCEPT !.calls = calls, !.stages = Append(@, stage)])
    /\ fs' = fs \cup {[path |-> p, job |-> run[w].job] : p \in writes}

Uid(w, site) == 2 * run[w].id + site

Existing == {f.path : f \in fs}

CallsOf(stage, trace, llm, eleven, attempts, thumbAttempts) ==
    [stage |-> stage, trace |-> trace, llm |-> llm, eleven |-> eleven,
     attempts |-> attempts, thumbAttempts |-> thumbAttempts, env |-> EmptyMap,
     pending |-> <<>>]

\* 1. generate_script, then status script_generated with the script.
ScriptStage(w, world) ==
    /\ pc[w] = "script"
    /\ \E oracle \in world.llm :
         LET g == GenerateScript(oracle)
             calls == CallsOf("script", Repeat("llm", g.calls), g.calls, <<>>, 0, 0)
         IN IF g.res.raised
            THEN Fail(w, "script", g.res.exc, calls, {})
            ELSE Advance(w, "script", "script_generated", [script |-> g.res.value], "tts",
                         [run[w] EXCEPT !.script_obj = g.res.value], calls, {})
    /\ UNCHANGED <<queue, now, started, requeued, probe, submit>>

\* The narration text: hook, then heading and body of every section via
\* sec.get(...), then cta.  A section that is no dict has no .get.
SectionsAreDicts(obj) == \A i \in 1..Len(obj.sections.items) : obj.sections.items[i].t = "dict"
FullText(obj) == [slug |-> obj.hook, len |-> obj.chars]

\* 2. tts_from_text, then status tts_complete with the voice path.
TtsStage(w, world) ==
    /\ pc[w] = "tts"
    /\ IF ~SectionsAreDicts(run[w].script_obj)
       THEN Fail(w, "text", Exc("AttributeError", <<"object has no attribute 'get'">>),
                 NoCalls, {})
       ELSE \E env \in world.ttsEnv, eleven \in world.eleven, polly \in world.polly :
              LET t == TtsFromText(FullText(run[w].script_obj), env, eleven, polly, now)
                  calls == CallsOf("tts", t.trace, 0, t.eleven, 0, 0)
              IN IF t.res.raised
                 THEN Fail(w, "tts", t.res.exc, calls, t.writes)
                 ELSE Advance(w, "tts", "tts_complete",
                              [voice_path |-> StrOfPath(t.res.value)], "assets",
                              [run[w] EXCEPT !.voice_path = t.res.value], calls, t.writes)
    /\ UNCHANGED <<queue, now, started, requeued, probe, submit>>

\* 3. build_assets, then status assets_ready with the asset paths.
AssetsStage(w, world) ==
    /\ pc[w] = "assets"
    /\ \E hasKey \in world.pexelsKey, oracle \in world.assets :
         LET b == BuildAssets(run[w].script_obj, hasKey, oracle, Uid(w, 0))
             calls == CallsOf("assets", b.trace, 0, <<>>, 0, 0)
         IN Advance(w, "assets", "assets_ready",
                    [assets |-> [i \in 1..Len(b.assets) |-> StrOfPath(b.assets[i])]],
                    "compose", [run[w] EXCEPT !.assets_paths = b.assets], calls, b.writes)
    /\ UNCHANGED <<queue, now, started, requeued, probe, submit>>

\* 4. compose_video into the storage directory, then status video_composed.
ComposeStage(w, world) ==
    /\ pc[w] = "compose"
    /\ \E answer \in world.compose :
         LET c == ComposeVideo(run[w].script_obj, run[w].voice_path, run[w].assets_paths,
                               Existing, answer)
             calls == CallsOf("compose", <<>>, 0, <<>>, 0, 0)
         IN IF c.res.raised
            THEN Fail(w, "compose", c.res.exc, calls, c.writes)
            ELSE Advance(w, "compose", "video_composed",
                         [video_path |-> StrOfPath(c.res.value)], "thumbnail",
                         [run[w] EXCEPT !.final_video_path = c.res.value], calls, c.writes)
    /\ UNCHANGED <<queue, now, started, requeued, probe, submit>>

\* 5. generate_thumbnail with the OpenAI key, then status thumbnail_ready.
ThumbnailStage(w, world) ==
    /\ pc[w] = "thumbnail"
    /\ \E answer \in world.thumbnail :
         LET t == GenerateThumbnail(run[w].script_obj, run[w].api_key, answer, Uid(w, 1))
             calls == CallsOf("thumbnail", t.trace, 0, <<>>, 0, 0)
         IN Advance(w, "thumbnail", "thumbnail_ready",
                    [thumbnail_path |-> StrOfPath(t.res.value)], "upload",
                    [run[w] EXCEPT !.thumbnail_path = t.res.value], calls, t.writes)
    /\ UNCHANGED <<queue, now, started, requeued, probe, submit>>

\* 6. upload_video with credentials={} and publish left at False, then the final
\* status with the upload result.
UploadStage(w, world) ==
    /\ pc[w] = "upload"
    /\ \E env \in world.uploadEnv, oracle \in world.upload :
         LET u == UploadVideo(EmptyMap, FALSE, env, run[w].thumbnail_path \in Existing, oracle)
             calls == [CallsOf("upload", u.trace, 0, <<>>, u.attempts, u.thumbAttempts)
                         EXCEPT !.env = env, !.pending = u.pending]
         IN IF u.res.raised
            THEN Fail(w, "upload", u.res.exc, calls, {})
            ELSE Advance(w, "upload", FinalStatus(u.res.value),
                         [upload_result |-> u.res.value], "done",
                         [run[w] EXCEPT !.upload_result = u.res.value], calls, {})
    /\ UNCHANGED <<queue, now, started, requeued, probe, submit>>

\* run_pipeline has returned or raised: the worker is free again.
Finish(w) ==
    /\ pc[w] = "done"
    /\ pc' = [pc EXCEPT ![w] = "idle"]
    /\ run' = [run EXCEPT ![w] = Idle]
    /\ UNCHANGED <<jobs, queue, fs, now, started, requeued, probe, submit>>

\* The worker process dies in the middle of an invocation: the job keeps the
\* status it had, and can be delivered again.
Crash(w) ==
    /\ pc[w] \notin {"idle", "done"}
    /\ pc' = [pc EXCEPT ![w] = "idle"]
    /\ run' = [run EXCEPT ![w] = Idle]
    /\ UNCHANGED <<jobs, queue, fs, now, started, requeued, probe, submit>>

(***************************************************************************)
(* Spec: jobs are submitted and run side by side on the workers.           *)
(***************************************************************************)
Next ==
    \/ EnqueueJob(MaxJobs)
    \/ Tick
    \/ \E w \in Workers : StartPipeline(w)
    \/ \E w \in Workers : ScriptStage(w, MainWorld)
    \/ \E w \in Workers : TtsStage(w, MainWorld)
    \/ \E w \in Workers : AssetsStage(w, MainWorld)
    \/ \E w \in Workers : ComposeStage(w, MainWorld)
    \/ \E w \in Workers : ThumbnailStage(w, MainWorld)
    \/ \E w \in Workers : UploadStage(w, MainWorld)
    \/ \E w \in Workers : Finish(w)
    \/ \E w \in Workers : Crash(w)

Spec == Init /\ [][Next]_vars

(***************************************************************************)
(* SpecRetry: one job, delivered again after its invocation has finished   *)
(* or its worker has died, whatever state the earlier invocation left.     *)
(***************************************************************************)
NextRetry ==
    \/ EnqueueJob(1)
    \/ RequeueJob
    \/ Tick
    \/ StartPipeline("w1")
    \/ ScriptStage("w1", MainWorld)
    \/ TtsStage("w1", MainWorld)
    \/ AssetsStage("w1", MainWorld)
    \/ ComposeStage("w1", MainWorld)
    \/ ThumbnailStage("w1", MainWorld)
    \/ UploadStage("w1", MainWorld)
    \/ Finish("w1")
    \/ Crash("w1")

SpecRetry == Init /\ [][NextRetry]_vars

(***************************************************************************)
(* SpecRun: one job, one invocation of run_pipeline on one worker, every   *)
(* answer of RunWorld.  The worker keeps taking steps (weak fairness):     *)
(* every call the pipeline makes returns or raises.                        *)
(***************************************************************************)
RunStep ==
    \/ StartPipeline("w1")
    \/ ScriptStage("w1", RunWorld)
    \/ TtsStage("w1", RunWorld)
    \/ AssetsStage("w1", RunWorld)
    \/ ComposeStage("w1", RunWorld)
    \/ ThumbnailStage("w1", RunWorld)
    \/ UploadStage("w1", RunWorld)
    \/ Finish("w1")

NextRun ==
    \/ EnqueueJob(1)
    \/ Tick
    \/ RunStep

SpecRun == Init /\ [][NextRun]_vars /\ WF_vars(RunStep)

(***************************************************************************)
(* SpecSubmit: submissions in their two steps, next to a worker that takes *)
(* what is in the queue.                                                   *)
(***************************************************************************)
SubmitWorld ==
    [MainWorld EXCEPT !.llm = { <<LlmOk(Text("plain", GoodObj(1, 40)))>>, <<LlmFail>> },
                      !.ttsEnv = { {"ELEVENLABS_API_KEY"} },
                      !.eleven = { <<200>> },
                      !.pexelsKey = { FALSE },
                      !.compose = { ComposeAnswer("ok", "ok") },
                      !.thumbnail = { "ok" },
                      !.uploadEnv = { EmptyMap }]

NextSubmit ==
    \/ SubmitFirst
    \/ SubmitSecond
    \/ StartPipeline("w1")
    \/ ScriptStage("w1", SubmitWorld)
    \/ TtsStage("w1", SubmitWorld)
    \/ AssetsStage("w1", SubmitWorld)
    \/ ComposeStage("w1", SubmitWorld)
    \/ ThumbnailStage("w1", SubmitWorld)
    \/ UploadStage("w1", SubmitWorld)
    \/ Finish("w1")

SpecSubmit == Init /\ [][NextSubmit]_vars

(***************************************************************************)
(* SpecOrphan: jobs are submitted and run one after the other, and an      *)
(* invocation of run_pipeline is also delivered for a job id that has no   *)
(* row in the jobs table.                                                  *)
(***************************************************************************)
\* An id no submission has been given.
UnknownJob == MaxJobs + 1

\* run_pipeline is enqueued with a job_id for which no Job row exists.
DeliverUnknown ==
    /\ requeued < MaxRequeues
    /\ ~Running(UnknownJob) /\ ~Queued(UnknownJob)
    /\ queue' = Append(queue, UnknownJob)
    /\ requeued' = requeued + 1
    /\ UNCHANGED <<jobs, pc, run, fs, now, started, probe, submit>>

NextOrphan ==
    \/ EnqueueJob(MaxJobs)
    \/ DeliverUnknown
    \/ Tick
    \/ StartPipeline("w1")
    \/ ScriptStage("w1", SubmitWorld)
    \/ TtsStage("w1", SubmitWorld)
    \/ AssetsStage("w1", SubmitWorld)
    \/ ComposeStage("w1", SubmitWorld)
    \/ ThumbnailStage("w1", SubmitWorld)
    \/ UploadStage("w1", SubmitWorld)
    \/ Finish("w1")

SpecOrphan == Init /\ [][NextOrphan]_vars

(***************************************************************************)
(* SpecFaults: one job, one invocation at a time, with a storage directory *)
(* that may not be creatable and a database whose query or commit may      *)
(* raise.                                                                  *)
(***************************************************************************)
FaultWorld == [SubmitWorld EXCEPT !.mkdir = {"ok", "error"}, !.db = {"ok", "error"}]

NextFaults ==
    \/ EnqueueJob(1)
    \/ StartPipelineIn("w1", FaultWorld)
    \/ ScriptStage("w1", FaultWorld)
    \/ TtsStage("w1", FaultWorld)
    \/ AssetsStage("w1", FaultWorld)
    \/ ComposeStage("w1", FaultWorld)
    \/ ThumbnailStage("w1", FaultWorld)
    \/ UploadStage("w1", FaultWorld)
    \/ Finish("w1")

SpecFaults == Init /\ [][NextFaults]_vars

(***************************************************************************)
(* SpecOverlap: one job whose invocation is delivered a second time while  *)
(* the first is still running (at-least-once delivery), on two workers;    *)
(* the query and the commit of every update are separate steps.            *)
(***************************************************************************)
OverlapWorld == [SubmitWorld EXCEPT !.split = TRUE]

\* The queue delivers the invocation of a running job once more.
Redeliver ==
    /\ requeued < MaxRequeues
    /\ \E j \in DOMAIN jobs :
         /\ Running(j) /\ ~Queued(j)
         /\ queue' = Append(queue, j)
    /\ requeued' = requeued + 1
    /\ UNCHANGED <<jobs, pc, run, fs, now, started, probe, submit>>

NextOverlap ==
    \/ EnqueueJob(1)
    \/ Redeliver
    \/ \E w \in Workers : StartPipelineIn(w, OverlapWorld)
    \/ \E w \in Workers : ScriptStage(w, OverlapWorld)
    \/ \E w \in Workers : TtsStage(w, OverlapWorld)
    \/ \E w \in Workers : AssetsStage(w, OverlapWorld)
    \/ \E w \in Workers : ComposeStage(w, OverlapWorld)
    \/ \E w \in Workers : ThumbnailStage(w, OverlapWorld)
    \/ \E w \in Workers : UploadStage(w, OverlapWorld)
    \/ \E w \in Workers : CommitUpdate(w)
    \/ \E w \in Workers : Finish(w)

SpecOverlap == Init /\ [][NextOverlap]_vars

(***************************************************************************)
(* generate_script on its own: the answers of the model are drawn at the   *)
(* start, the one action applies the function to them.                     *)
(***************************************************************************)
ScriptKeySets ==
    {RequiredTop, {"title"}, {"error", "reason"}, {"error"},
     RequiredTop \cup {"error", "reason"}}
    \cup {RequiredTop \ {k} : k \in RequiredTop}

ScriptTitles == {JStr("T"), JStr(""), JNum}

ScriptSections ==
    {JList(<<FullSection>>), JList(<<>>), JNotList,
     JList(<<FullSection, Section("dict", {"heading", "body"})>>),
     JList(<<Section("dict", {})>>),
     JList(<<Section("list", SecKeys)>>),
     JList(<<Section("str", SecKeys)>>),
     JList(<<FullSection, Section("num", {})>>)}

ScriptObjs ==
    {Obj("dict", ks, t, "hook", ss, "X", 40) :
        ks \in ScriptKeySets, t \in ScriptTitles, ss \in ScriptSections}
    \cup {Obj("list", {}, JStr(""), "", JNotList, "", 0),
          Obj("str", {}, JStr(""), "", JNotList, "", 0)}

ScriptWraps == {"plain", "fence", "fence_json", "stray", "garbage"}

ScriptTexts == {Text(wr, o) : wr \in ScriptWraps, o \in ScriptObjs}

InitScript ==
    /\ jobs = EmptyMap
    /\ queue = <<>>
    /\ pc = [w \in Workers |-> "idle"]
    /\ run = [w \in Workers |-> Idle]
    /\ fs = {}
    /\ now = 0
    /\ started = 0
    /\ requeued = 0
    /\ submit = NoSubmit
    /\ \E oracle \in LlmOracles(ScriptTexts) :
          probe = [fn |-> "generate_script", input |-> oracle, out |-> <<>>]

\* generate_script(topic, llm_client=...) is called and comes back.
CallGenerateScript ==
    /\ probe.fn = "generate_script"
    /\ probe.out = <<>>
    /\ probe' = [probe EXCEPT !.out = <<GenerateScript(probe.input)>>]
    /\ UNCHANGED <<jobs, queue, pc, run, fs, now, started, requeued, submit>>

NextScript == CallGenerateScript

SpecScript == InitScript /\ [][NextScript]_vars

(***************************************************************************)
(* tts_from_text on its own: the text, the environment, the clock and the  *)
(* answers of the two providers are drawn at the start.                    *)
(***************************************************************************)
TtsEnvVars == {"ELEVENLABS_API_KEY", "AWS_ACCESS_KEY_ID", "AWS_SECRET_ACCESS_KEY"}

TtsTextLens == {0, 30, TTS_CHUNK_SIZE, TTS_CHUNK_SIZE + 1, 2 * TTS_CHUNK_SIZE,
                2 * TTS_CHUNK_SIZE + 1}

\* Answers of the primary provider to its successive requests: HTTP statuses, 0
\* for a request that raised.
ElevenOracles ==
    UNION {[1..n -> {200, 500}] : n \in 1..4} \cup {<<0>>, <<403>>, <<0, 200>>, <<500, 0, 200>>}

PollyOracles == UNION {[1..n -> {"audio", "error"}] : n \in 1..2}

InitTts ==
    /\ jobs = EmptyMap
    /\ queue = <<>>
    /\ pc = [w \in Workers |-> "idle"]
    /\ run = [w \in Workers |-> Idle]
    /\ fs = {}
    /\ now = 0
    /\ started = 0
    /\ requeued = 0
    /\ submit = NoSubmit
    /\ \E len \in TtsTextLens, env \in SUBSET TtsEnvVars,
          eleven \in ElevenOracles, polly \in PollyOracles :
          probe = [fn |-> "tts_from_text",
                   input |-> [text |-> [slug |-> "hook", len |-> len], env |-> env,
                              eleven |-> eleven, polly |-> polly],
                   out |-> <<>>]

\* tts_from_text(text, voice_profile, llm_client, storage_path) is called and
\* comes back.
CallTtsFromText ==
    /\ probe.fn = "tts_from_text"
    /\ probe.out = <<>>
    /\ probe' = [probe EXCEPT !.out = <<TtsFromText(probe.input.text, probe.input.env,
                                                   probe.input.eleven, probe.input.polly,
                                                   now)>>]
    /\ UNCHANGED <<jobs, queue, pc, run, fs, now, started, requeued, submit>>

NextTts == CallTtsFromText

SpecTts == InitTts /\ [][NextTts]_vars

(***************************************************************************)
(* build_assets on its own.                                                *)
(***************************************************************************)
\* Sections told apart by their headings: one with a b_roll hint, one whose
\* b_roll is the empty string, one without a b_roll key.
AssetSections ==
    {SectionWith("dict", SecKeys, "Ha", "Ba", 1, 3),
     SectionWith("dict", SecKeys, "Hb", "", 1, 3),
     SectionWith("dict", {"heading", "body"}, "Hc", "", 1, 3)}

MaxSections == 3

AssetObjs ==
    {Obj("dict", RequiredTop, JStr("T"), "hook", JList(secs), "", 40) :
        secs \in UNION {[1..n -> AssetSections] : n \in 1..MaxSections}}

AssetAnswers ==
    {AssetAnswer("url", "ok"), AssetAnswer("url", "http_error"),
     AssetAnswer("url", "stream_error"), AssetAnswer("none", "ok")}

InitAssets ==
    /\ jobs = EmptyMap
    /\ queue = <<>>
    /\ pc = [w \in Workers |-> "idle"]
    /\ run = [w \in Workers |-> Idle]
    /\ fs = {}
    /\ now = 0
    /\ started = 0
    /\ requeued = 0
    /\ submit = NoSubmit
    /\ \E obj \in AssetObjs, hasKey \in BOOLEAN, oracle \in [1..MaxSections -> AssetAnswers] :
          probe = [fn |-> "build_assets",
                   input |-> [obj |-> obj, hasKey |-> hasKey, oracle |-> oracle],
                   out |-> <<>>]

\* build_assets(script_obj, storage_path, pexels_api_key) is called and comes back.
CallBuildAssets ==
    /\ probe.fn = "build_assets"
    /\ probe.out = <<>>
    /\ probe' = [probe EXCEPT !.out = <<BuildAssets(probe.input.obj, probe.input.hasKey,
                                                   probe.input.oracle, 1)>>]
    /\ UNCHANGED <<jobs, queue, pc, run, fs, now, started, requeued, submit>>

NextAssets == CallBuildAssets

SpecAssets == InitAssets /\ [][NextAssets]_vars

(***************************************************************************)
(* compose_video and _estimate_section_timings on their own.               *)
(***************************************************************************)
ComposeVoice == Path("voice", "hook", 0, 0, 0)

ComposeAssetLists ==
    {[i \in 1..n |-> AssetName(GoodObj(1, 40), 1, i, "slide")] : n \in 0..2}

ComposeInputs ==
    {[obj |-> GoodObj(n, 40), voice |-> ComposeVoice, assets |-> assets,
      existing |-> existing, answer |-> answer] :
        n \in 1..2, assets \in ComposeAssetLists,
        existing \in SUBSET ({ComposeVoice} \cup {AssetName(GoodObj(1, 40), 1, i, "slide") : i \in 1..2}),
        answer \in [audio : {"ok", "error"}, render : {"ok", "error"}]}

\* Sections by their numbers of words under heading and body; one has no body key.
TimingSections ==
    {SectionWith("dict", SecKeys, "H", "B", hw, bw) : hw \in {0, 1, 2}, bw \in {0, 3}}
    \cup {SectionWith("dict", {"heading", "b_roll"}, "H", "B", 2, 3)}

TimingDurations == {Rat(10, 1), Rat(15, 2), Rat(1, 1)}

TimingInputs ==
    {[obj |-> Obj("dict", RequiredTop, JStr("T"), "hook", JList(secs), "", 40),
      duration |-> d] :
        secs \in UNION {[1..n -> TimingSections] : n \in 1..MaxSections},
        d \in TimingDurations}

\* _generate_srt is called by compose_video with the timings that
\* _estimate_section_timings gave for the same script.
SrtInputs ==
    {[obj |-> in.obj, timings |-> EstimateSectionTimings(in.obj, in.duration)] :
        in \in TimingInputs}

InitCompose ==
    /\ jobs = EmptyMap
    /\ queue = <<>>
    /\ pc = [w \in Workers |-> "idle"]
    /\ run = [w \in Workers |-> Idle]
    /\ fs = {}
    /\ now = 0
    /\ started = 0
    /\ requeued = 0
    /\ submit = NoSubmit
    /\ \/ \E in \in ComposeInputs :
             probe = [fn |-> "compose_video", input |-> in, out |-> <<>>]
       \/ \E in \in TimingInputs :
             probe = [fn |-> "_estimate_section_timings", input |-> in, out |-> <<>>]
       \/ \E in \in SrtInputs :
             probe = [fn |-> "_generate_srt", input |-> in, out |-> <<>>]

\* compose_video(script_obj, voice_file, assets, output_path) is called and comes
\* back.
CallComposeVideo ==
    /\ probe.fn = "compose_video"
    /\ probe.out = <<>>
    /\ probe' = [probe EXCEPT !.out = <<ComposeVideo(probe.input.obj, probe.input.voice,
                                                    probe.input.assets, probe.input.existing,
                                                    probe.input.answer)>>]
    /\ UNCHANGED <<jobs, queue, pc, run, fs, now, started, requeued, submit>>

\* _estimate_section_timings(script_obj, total_audio_duration) is called and
\* comes back.
CallEstimateSectionTimings ==
    /\ probe.fn = "_estimate_section_timings"
    /\ probe.out = <<>>
    /\ probe' = [probe EXCEPT !.out = <<EstimateSectionTimings(probe.input.obj,
                                                              probe.input.duration)>>]
    /\ UNCHANGED <<jobs, queue, pc, run, fs, now, started, requeued, submit>>

\* _generate_srt(script_obj, timings, output_path) is called and comes back.
CallGenerateSrt ==
    /\ probe.fn = "_generate_srt"
    /\ probe.out = <<>>
    /\ probe' = [probe EXCEPT !.out = <<GenerateSrt(probe.input.obj, probe.input.timings)>>]
    /\ UNCHANGED <<jobs, queue, pc, run, fs, now, started, requeued, submit>>

NextCompose ==
    \/ CallComposeVideo
    \/ CallEstimateSectionTimings
    \/ CallGenerateSrt

SpecCompose == InitCompose /\ [][NextCompose]_vars

(***************************************************************************)
(* generate_thumbnail on its own.                                          *)
(***************************************************************************)
ThumbnailAnswers == {"ok", "api_error", "download_error", "no_openai"}

ThumbnailInputs ==
    [obj : {GoodObj(n, chars) : n \in 1..MaxSections, chars \in {40, 6000}},
     hasKey : BOOLEAN, answer : ThumbnailAnswers, uid : 1..2]

InitThumbnail ==
    /\ jobs = EmptyMap
    /\ queue = <<>>
    /\ pc = [w \in Workers |-> "idle"]
    /\ run = [w \in Workers |-> Idle]
    /\ fs = {}
    /\ now = 0
    /\ started = 0
    /\ requeued = 0
    /\ submit = NoSubmit
    /\ \E in \in ThumbnailInputs :
          probe = [fn |-> "generate_thumbnail", input |-> in, out |-> <<>>]

\* generate_thumbnail(script_obj, storage_path, ai_image_api_key) is called and
\* comes back.
CallGenerateThumbnail ==
    /\ probe.fn = "generate_thumbnail"
    /\ probe.out = <<>>
    /\ probe' = [probe EXCEPT !.out = <<GenerateThumbnail(probe.input.obj, probe.input.hasKey,
                                                          probe.input.answer, probe.input.uid)>>]
    /\ UNCHANGED <<jobs, queue, pc, run, fs, now, started, requeued, submit>>

NextThumbnail == CallGenerateThumbnail

SpecThumbnail == InitThumbnail /\ [][NextThumbnail]_vars

(***************************************************************************)
(* upload_video on its own.                                                *)
(***************************************************************************)
\* The credentials argument: none, all three, one of them, all three empty.
UploadCredentials ==
    { EmptyMap, SetTo(YoutubeCreds, "arg"), SetTo({"YOUTUBE_REFRESH_TOKEN"}, "arg"),
      SetTo(YoutubeCreds, "") }

\* os.environ: which credentials are set, and AUTO_PUBLISH unset or set.
UploadEnvs ==
    { Merge(SetTo(names, "set"), auto) :
        names \in { {}, YoutubeCreds, YoutubeCreds \ {"YOUTUBE_REFRESH_TOKEN"} },
        auto \in { EmptyMap } \cup
                 { SetTo({"AUTO_PUBLISH"}, v) : v \in {"true", "True", "False", "1"} } }

UploadAnswers ==
    [token : {200, 403, 0},
     init : {<<200>>, <<201>>, <<403>>, <<500>>, <<500, 200>>},
     put : {<<200>>, <<204>>, <<403>>, <<500>>, <<500, 201>>},
     thumb : {<<200>>, <<403>>, <<500, 500, 200>>},
     location : BOOLEAN, video : {"v1"}, row : {"1"}]

\* Every way of giving the credentials with a platform that answers well, and
\* every answer of the platform with the credentials in the environment.
UploadInputs ==
    [credentials : UploadCredentials, publish : BOOLEAN, env : UploadEnvs,
     thumbExists : BOOLEAN,
     oracle : [token : {200}, init : {<<200>>}, put : {<<200>>}, thumb : {<<200>>},
               location : {TRUE}, video : {"v1"}, row : {"1", "8"}]]
    \cup
    [credentials : {EmptyMap}, publish : {FALSE}, env : {SetTo(YoutubeCreds, "set")},
     thumbExists : BOOLEAN, oracle : UploadAnswers]

InitUpload ==
    /\ jobs = EmptyMap
    /\ queue = <<>>
    /\ pc = [w \in Workers |-> "idle"]
    /\ run = [w \in Workers |-> Idle]
    /\ fs = {}
    /\ now = 0
    /\ started = 0
    /\ requeued = 0
    /\ submit = NoSubmit
    /\ \E in \in UploadInputs :
          probe = [fn |-> "upload_video", input |-> in, out |-> <<>>]

\* upload_video(video_path, thumbnail_path, title, desc, tags, publish,
\* credentials) is called and comes back.
CallUploadVideo ==
    /\ probe.fn = "upload_video"
    /\ probe.out = <<>>
    /\ probe' = [probe EXCEPT !.out = <<UploadVideo(probe.input.credentials,
                                                   probe.input.publish, probe.input.env,
                                                   probe.input.thumbExists,
                                                   probe.input.oracle)>>]
    /\ UNCHANGED <<jobs, queue, pc, run, fs, now, started, requeued, submit>>

NextUpload == CallUploadVideo

SpecUpload == InitUpload /\ [][NextUpload]_vars

(***************************************************************************)
(* api/app.py: one request to the monitoring API.  The secret is            *)
(* MONITOR_API_KEY as read at import ("" when unset or empty), the header   *)
(* the value of X-API-KEY ("none" when the request has no such header).     *)
(***************************************************************************)
\* A check that lets a request without the header pass.
ApiKeyRejectedIfPresent(secret, header) == secret # "" /\ header # "none" /\ header # secret

\* get_api_key raises HTTPException(403): a secret is configured and the
\* header is not equal to it.
ApiKeyRejected(secret, header) == secret # "" /\ header # secret

Response(status, read) == [status |-> status, read |-> read]
Forbidden == Response(403, {})

\* The job tables a request can find.
ApiTables ==
    { EmptyMap,
      [j \in {1} |-> Job("queued", "niche", "topic")],
      [j \in {1, 2} |-> Job(IF j = 1 THEN "completed" ELSE "processing", "niche", "topic")] }

ApiRequests ==
    [secret : {"", "s3cret"}, header : {"none", "s3cret", "guess"},
     endpoint : {"list_jobs", "get_job_details", "enqueue_job_endpoint", "dashboard",
                 "health_check"},
     job_id : 1..2, table : ApiTables]

InitApi ==
    /\ queue = <<>>
    /\ pc = [w \in Workers |-> "idle"]
    /\ run = [w \in Workers |-> Idle]
    /\ fs = {}
    /\ now = 0
    /\ started = 0
    /\ requeued = 0
    /\ submit = NoSubmit
    /\ \E in \in ApiRequests :
          /\ probe = [fn |-> in.endpoint, input |-> in, out |-> <<>>]
          /\ jobs = in.table

\* The handler of a read-only endpoint answers with `response` unless the
\* dependency get_api_key rejects the request.
Answer(endpoint, response) ==
    /\ probe.fn = endpoint
    /\ probe.out = <<>>
    /\ probe' = [probe EXCEPT !.out =
                    <<IF ApiKeyRejected(probe.input.secret, probe.input.header)
                      THEN Forbidden ELSE response>>]
    /\ UNCHANGED <<jobs, queue, pc, run, fs, now, started, requeued, submit>>

\* GET /jobs: the rows, newest first.
ListJobs == Answer("list_jobs", Response(200, DOMAIN jobs))

\* GET /jobs/{job_id}: the row, or 404.
GetJobDetails ==
    Answer("get_job_details",
           IF probe.input.job_id \in DOMAIN jobs
           THEN Response(200, {probe.input.job_id}) ELSE Response(404, {}))

\* GET /: the table of the newest rows as HTML.
Dashboard == Answer("dashboard", Response(200, DOMAIN jobs))

\* GET /health has no dependency on get_api_key.
HealthCheck ==
    /\ probe.fn = "health_check"
    /\ probe.out = <<>>
    /\ probe' = [probe EXCEPT !.out = <<Response(200, {})>>]
    /\ UNCHANGED <<jobs, queue, pc, run, fs, now, started, requeued, submit>>

\* POST /enqueue: a new row in status queued, committed, and its invocation
\* enqueued, unless get_api_key rejects the request.
EnqueueJobEndpoint ==
    /\ probe.fn = "enqueue_job_endpoint"
    /\ probe.out = <<>>
    /\ IF ApiKeyRejected(probe.input.secret, probe.input.header)
       THEN /\ probe' = [probe EXCEPT !.out = <<Forbidden>>]
            /\ UNCHANGED <<jobs, queue>>
       ELSE LET id == Cardinality(DOMAIN jobs) + 1 IN
            /\ jobs' = [j \in (DOMAIN jobs) \cup {id} |->
                          IF j = id THEN JobAt("queued", "niche", "topic", now) ELSE jobs[j]]
            /\ queue' = Append(queue, id)
            /\ probe' = [probe EXCEPT !.out = <<Response(200, {id})>>]
    /\ UNCHANGED <<pc, run, fs, now, started, requeued, submit>>

NextApi ==
    \/ ListJobs
    \/ GetJobDetails
    \/ Dashboard
    \/ HealthCheck
    \/ EnqueueJobEndpoint

SpecApi == InitApi /\ [][NextApi]_vars

(***************************************************************************)
(* Properties of the orchestrator.                                         *)
(***************************************************************************)
StatusOrder ==
    <<"processing", "script_generated", "tts_complete", "assets_ready", "video_composed",
      "thumbnail_ready">>
StageOrder == <<"script", "tts", "assets", "compose", "thumbnail", "upload">>

Last(s) == s[Len(s)]
Active == {w \in Workers : pc[w] # "idle"}
Stored(w) == jobs[run[w].job]

\* s is a prefix of processing .. thumbnail_ready, {completed | pending_upload},
\* optionally followed by one final "failed".
StatusSequenceOk(s) ==
    \E n \in 0..Len(s) :
       /\ \/ IsPrefix(SubSeq(s, 1, n), Append(StatusOrder, "completed"))
          \/ IsPrefix(SubSeq(s, 1, n), Append(StatusOrder, "pending_upload"))
       /\ SubSeq(s, n + 1, Len(s)) \in {<<>>, <<"failed">>}

\* C1: within one invocation of run_pipeline the statuses written to the job row
\* are a prefix of processing, script_generated, tts_complete, assets_ready,
\* video_composed, thumbnail_ready, {completed | pending_upload}, optionally
\* followed by a single final failed (so never back to an earlier stage name and
\* nothing after failed), and the row holds the last status written.
C1_StatusMonotonic ==
    \A w \in Active :
       /\ StatusSequenceOk(run[w].written)
       /\ run[w].written # <<>>
       /\ Stored(w).status = Last(run[w].written)

\* An invocation delivered again after a completed one fails in the middle.
C1_Witness ==
    \E w \in Active :
       /\ pc[w] = "done" /\ run[w].entry = "completed"
       /\ run[w].written =
            <<"processing", "script_generated", "tts_complete", "assets_ready", "failed">>

StagesUpTo(stage) ==
    IF stage = "text" THEN <<"script">>
    ELSE SubSeq(StageOrder, 1, CHOOSE i \in 1..Len(StageOrder) : StageOrder[i] = stage)

\* C2: when a stage raises, run_pipeline leaves the job in status failed with the
\* message of that exception under the metadata key error, has invoked no stage
\* after the one that raised, and raises that exception to its caller.
C2_FailureRecorded ==
    \A w \in Active :
       (pc[w] = "done" /\ run[w].raisedIn # "none") =>
          /\ Stored(w).status = "failed"
          /\ "error" \in DOMAIN Stored(w).metadata
          /\ Stored(w).metadata["error"] = StrOfExc(run[w].outcome)
          /\ run[w].outcome # NoExc
          /\ run[w].stages = StagesUpTo(run[w].raisedIn)

\* The upload, the last stage, raises after its retries ran out.
C2_Witness ==
    \E w \in Active :
       /\ pc[w] = "done" /\ run[w].raisedIn = "upload"
       /\ run[w].outcome.type = "RetryError"
       /\ Stored(w).status = "failed"

\* The status and the output that must be stored when a stage is invoked.
Before(stage) ==
    CASE stage = "tts" -> [status |-> "script_generated", key |-> "script"]
      [] stage = "assets" -> [status |-> "tts_complete", key |-> "voice_path"]
      [] stage = "compose" -> [status |-> "assets_ready", key |-> "assets"]
      [] stage = "thumbnail" -> [status |-> "video_composed", key |-> "video_path"]
      [] stage = "upload" -> [status |-> "thumbnail_ready", key |-> "thumbnail_path"]

\* The value of a stage's output as the invocation holds it.
LocalOutput(w, key) ==
    CASE key = "script" -> run[w].script_obj
      [] key = "voice_path" -> StrOfPath(run[w].voice_path)
      [] key = "assets" ->
           [i \in 1..Len(run[w].assets_paths) |-> StrOfPath(run[w].assets_paths[i])]
      [] key = "video_path" -> StrOfPath(run[w].final_video_path)
      [] key = "thumbnail_path" -> StrOfPath(run[w].thumbnail_path)
      [] key = "upload_result" -> run[w].upload_result

C5_FinalStatus ==
    \A w \in Active :
       (pc[w] = "done" /\ run[w].raisedIn = "none") =>
          /\ (Stored(w).status = "completed") <=> (run[w].upload_result.status = "uploaded")
          /\ Stored(w).status \in {"completed", "pending_upload"}
          /\ "upload_result" \in DOMAIN Stored(w).metadata
          /\ Stored(w).metadata["upload_result"] = run[w].upload_result

\* The upload returned a pending upload.
C5_Witness ==
    \E w \in Active :
       /\ pc[w] = "done" /\ run[w].raisedIn = "none"
       /\ run[w].upload_result.status = "pending_upload"
       /\ Stored(w).status = "pending_upload"

\* C6: every invocation of run_pipeline starts at the script stage and runs the
\* stages in order, whatever status and metadata the job had at entry: the stages
\* invoked are a prefix of the six starting with script, an invocation that has
\* invoked none is about to invoke script, and one that returns has invoked all.
C6_AlwaysFromScript ==
    \A w \in Active :
       /\ IsPrefix(run[w].stages, StageOrder)
       /\ (run[w].stages = <<>> /\ run[w].raisedIn = "none") => pc[w] = "script"
       /\ (pc[w] = "done" /\ run[w].raisedIn = "none") => run[w].stages = StageOrder

\* An invocation on a job that was already completed ran all six stages again.
C6_Witness ==
    \E w \in Active :
       /\ pc[w] = "done" /\ run[w].entry = "completed"
       /\ run[w].stages = StageOrder

\* The metadata keys an update names: the output key of the stage that returned,
\* error in the except branch, none for the "processing" update.
StageKey(stage) ==
    CASE stage = "script" -> {"script"}
      [] stage = "tts" -> {"voice_path"}
      [] stage = "assets" -> {"assets"}
      [] stage = "compose" -> {"video_path"}
      [] stage = "thumbnail" -> {"thumbnail_path"}
      [] stage = "upload" -> {"upload_result"}
      [] OTHER -> {}

NamedKeys(r) == IF r.raisedIn # "none" THEN {"error"} ELSE StageKey(r.calls.stage)

\* A step leaves every key of every job in place, with its value unless the step
\* is an update of that job naming the key, and stores the keys the update names.
MergeStep ==
    \A j \in DOMAIN jobs :
       /\ \A k \in DOMAIN jobs[j].metadata :
            /\ k \in DOMAIN jobs'[j].metadata
            /\ jobs'[j].metadata[k] # jobs[j].metadata[k] =>
                 \E w \in Workers : /\ run'[w].job = j /\ run'[w] # run[w]
                                    /\ k \in NamedKeys(run'[w])
       /\ \A w \in Workers :
            (run'[w].job = j /\ run'[w] # run[w]) =>
               NamedKeys(run'[w]) \subseteq DOMAIN jobs'[j].metadata

CompletedKeys ==
    {"script", "voice_path", "assets", "video_path", "thumbnail_path", "upload_result"}

\* C7: each status update merges the stage's output keys into the job's metadata
\* and leaves every key it does not name unchanged; after an invocation that ends
\* in completed the metadata holds script, voice_path, assets, video_path,
\* thumbnail_path and upload_result.
C7_MetadataMerged ==
    /\ [][MergeStep]_vars
    /\ [](\A w \in Active :
            (pc[w] = "done" /\ Stored(w).status = "completed") =>
               CompletedKeys \subseteq DOMAIN Stored(w).metadata)

\* An invocation completes on a job whose earlier invocation had failed: the
\* error of the earlier one is still in the metadata.
C7_Witness ==
    \E w \in Active :
       /\ pc[w] = "done" /\ run[w].entry = "failed"
       /\ Stored(w).status = "completed"
       /\ "error" \in DOMAIN Stored(w).metadata

NoDuplicates(s) == \A i, j \in 1..Len(s) : i # j => s[i] # s[j]

\* C8: every retry loop is local to a stage and bounded: at most 3 model calls
\* per script stage, 3 primary-TTS calls per chunk, 5 executions of the resumable
\* upload, 3 thumbnail requests, no stage invoked twice in an invocation; and an
\* invocation whose external calls all answer comes to its end.
C8_BoundedRetries ==
    /\ [](\A w \in Active :
            /\ run[w].calls.llm <= 3
            /\ \A i \in 1..Len(run[w].calls.eleven) : run[w].calls.eleven[i] <= 3
            /\ run[w].calls.attempts <= 5
            /\ run[w].calls.thumbAttempts <= 3
            /\ NoDuplicates(run[w].stages))
    /\ (pc["w1"] # "idle") ~> (pc["w1"] = "idle")

\* The resumable upload was executed five times and gave up.
C8_Witness ==
    \E w \in Active :
       /\ pc[w] = "done" /\ run[w].calls.attempts = 5
       /\ run[w].outcome.type = "RetryError"

\* C4 as stated: no two distinct jobs ever write the same artifact file path.
C4_NoSharedArtifactPath ==
    \A f, g \in fs : f.path = g.path => f.job = g.job

(***************************************************************************)
(* Properties of generate_script.                                          *)
(***************************************************************************)
ProbeDone == probe.fn = "generate_script" /\ probe.out # <<>>
ProbeOut == probe.out[1]

\* The call of the model that answered: the first entry of the answers that is
\* not a failure, within the attempts allowed; 0 when there is none.
AnsweredCall(oracle) ==
    LET ok == {n \in 1..LLM_STOP_AFTER_ATTEMPT : At(oracle, n).ok}
    IN IF ok = {} THEN 0 ELSE CHOOSE n \in ok : \A m \in ok : n <= m

\* The response of the model parses to an object with an "error" key.
ErrorResponse(oracle) ==
    /\ AnsweredCall(oracle) > 0
    /\ LET t == At(oracle, AnsweredCall(oracle)).text
       IN /\ t.wrap # "garbage"
          /\ t.obj.type = "dict"
          /\ "error" \in t.obj.keys

\* C9: when the response parses to an object with an "error" key, generate_script
\* raises a ValueError whose message is content_not_allowed followed by the
\* model's reason (empty without one), whether or not the required keys are
\* there, and the model is not called again after that response: one call when
\* the first call answers.
C9_ContentNotAllowed ==
    (ProbeDone /\ ErrorResponse(probe.input)) =>
       LET t == At(probe.input, AnsweredCall(probe.input)).text IN
       /\ ProbeOut.res.raised
       /\ ProbeOut.res.exc.type = "ValueError"
       /\ ProbeOut.res.exc.msg =
            <<"content_not_allowed: ", IF "reason" \in t.obj.keys THEN t.obj.reason ELSE "">>
       /\ ProbeOut.calls = AnsweredCall(probe.input)
       /\ At(probe.input, 1).ok => ProbeOut.calls = 1

\* The first call answers with an error object that lacks the required keys.
C9_Witness ==
    /\ ProbeDone /\ ErrorResponse(probe.input)
    /\ At(probe.input, 1).ok
    /\ ~(RequiredTop \subseteq At(probe.input, 1).text.obj.keys)
    /\ ProbeOut.calls = 1
    /\ ProbeOut.res.exc.msg = <<"content_not_allowed: ", "X">>

\* The ScriptObject invariant: the six keys, a non-empty string title, a non-empty
\* list of sections, every section an object with heading, body and b_roll.
ScriptObjectInvariant(obj) ==
    /\ obj.type = "dict"
    /\ RequiredTop \subseteq obj.keys
    /\ obj.title.t = "str" /\ obj.title.s # ""
    /\ obj.sections.t = "list" /\ Len(obj.sections.items) > 0
    /\ \A i \in 1..Len(obj.sections.items) :
          /\ obj.sections.items[i].t = "dict"
          /\ SecKeys \subseteq obj.sections.items[i].names

\* C10 as stated: generate_script returns an object only if it satisfies the
\* ScriptObject invariant, and a parsed response without an "error" key that
\* violates it fails with invalid_response.
C10_OnlyValidScripts ==
    (ProbeDone /\ AnsweredCall(probe.input) > 0) =>
       LET t == At(probe.input, AnsweredCall(probe.input)).text IN
       /\ ~ProbeOut.res.raised => ScriptObjectInvariant(ProbeOut.res.value)
       /\ (ParseResponse(t).raised = FALSE /\ ~ErrorResponse(probe.input)
             /\ ~ScriptObjectInvariant(t.obj)) =>
            /\ ProbeOut.res.raised
            /\ ProbeOut.res.exc = Exc("ValueError", <<"invalid_response">>)

\* C11: generate_script calls the model at most 3 times, a call is made again
\* only when every call before it failed, and once a call has returned text a
\* parse or validation failure ends the stage with no further call.
C11_RetryOnlyFailedCalls ==
    ProbeDone =>
       /\ ProbeOut.calls \in 1..3
       /\ \A n \in 1..(ProbeOut.calls - 1) : ~At(probe.input, n).ok
       /\ AnsweredCall(probe.input) > 0 => ProbeOut.calls = AnsweredCall(probe.input)
       /\ AnsweredCall(probe.input) = 0 => ProbeOut.calls = 3

\* Two calls failed and the third returned a text that is no valid script: the
\* stage failed with invalid_response after three calls.
C11_Witness ==
    /\ ProbeDone
    /\ ProbeOut.calls = 3
    /\ AnsweredCall(probe.input) = 3
    /\ ProbeOut.res.raised
    /\ ProbeOut.res.exc = Exc("ValueError", <<"invalid_response">>)

\* C12 as stated: generate_script raises ValueError for disallowed or invalid
\* responses, and when every model-call attempt fails the exception that leaves
\* it is an LLMError.
C12_UpstreamFailureIsLLMError ==
    (ProbeDone /\ ProbeOut.res.raised) =>
       IF AnsweredCall(probe.input) = 0
       THEN ProbeOut.res.exc.type = "LLMError"
       ELSE ProbeOut.res.exc.type = "ValueError"

(***************************************************************************)
(* Properties of tts_from_text.                                            *)
(***************************************************************************)
TtsDone == probe.fn = "tts_from_text" /\ probe.out # <<>>
TtsOut == probe.out[1]
TtsIn == probe.input

Occurs(x, seq) == \E i \in 1..Len(seq) : seq[i] = x
Count(x, seq) == Len(SelectSeq(seq, LAMBDA y : y = x))

\* The requests made to the primary provider for the chunks before chunk c.
RECURSIVE ElevenBefore(_, _)
ElevenBefore(log, c) ==
    IF c <= 1 THEN 0 ELSE ElevenBefore(log, c - 1) + Count("eleven", log[c - 1].calls)

\* The primary provider produced audio for chunk c: the last request made to it
\* for that chunk was answered 200.
PrimaryOk(c) ==
    LET k == Count("eleven", TtsOut.log[c].calls) IN
    k > 0 /\ At(TtsIn.eleven, ElevenBefore(TtsOut.log, c) + k) = 200

SecondaryConfigured == {"AWS_ACCESS_KEY_ID", "AWS_SECRET_ACCESS_KEY"} \subseteq TtsIn.env

\* C13: for each chunk the primary provider is called, and called first, if and
\* only if its API key is configured; the secondary is called, once, only when
\* the primary produced no audio for that chunk and the secondary's credentials
\* are configured, and never when the primary succeeded.
C13_ProviderChain ==
    TtsDone =>
       \A c \in 1..Len(TtsOut.log) :
          LET calls == TtsOut.log[c].calls IN
          /\ Occurs("eleven", calls) <=> ("ELEVENLABS_API_KEY" \in TtsIn.env)
          /\ \A i, j \in 1..Len(calls) : (calls[i] = "eleven" /\ calls[j] = "polly") => i < j
          /\ Count("polly", calls) <= 1
          /\ Occurs("polly", calls) <=> (~PrimaryOk(c) /\ SecondaryConfigured)
          /\ PrimaryOk(c) => ~Occurs("polly", calls)

\* A text of two chunks: the primary answers the first, fails three times on the
\* second, and the secondary produces the second.
C13_Witness ==
    /\ TtsDone /\ ~TtsOut.res.raised
    /\ Len(TtsOut.log) = 2
    /\ TtsOut.log[1] = [calls |-> <<"eleven">>, by |-> "eleven"]
    /\ TtsOut.log[2] = [calls |-> <<"eleven", "eleven", "eleven", "polly">>, by |-> "polly"]

NoProviderConfigured == "ELEVENLABS_API_KEY" \notin TtsIn.env /\ ~SecondaryConfigured

\* C14 as stated: with neither provider configured tts_from_text fails with the
\* credentials error without calling a provider, and it fails with that error in
\* no other case.
C14_CredentialsErrorOnlyUnconfigured ==
    TtsDone =>
       /\ NoProviderConfigured => (/\ TtsOut.res.raised
                                   /\ TtsOut.res.exc.type = "OSError"
                                   /\ TtsOut.trace = <<>>)
       /\ (TtsOut.res.raised /\ TtsOut.res.exc.type = "OSError") => NoProviderConfigured

\* C15: the chunks synthesized have at most 5000 characters each and are, in
\* order, consecutive slices of the text from its first character to its last;
\* the output audio is the per-chunk audio in that order; a text of at most 5000
\* characters is one chunk.
C15_ChunksConcatenate ==
    (TtsDone /\ ~TtsOut.res.raised) =>
       LET a == TtsOut.audio
           len == TtsIn.text.len
       IN /\ Len(a) >= 1
          /\ a[1].from = 0
          /\ a[Len(a)].to = len
          /\ \A i \in 1..Len(a) : a[i].to - a[i].from <= 5000 /\ a[i].from <= a[i].to
          /\ \A i \in 1..(Len(a) - 1) : a[i + 1].from = a[i].to
          /\ len <= 5000 => Len(a) = 1
          /\ Len(a) = Len(TtsOut.log)
          /\ \A i \in 1..Len(a) : a[i].by = TtsOut.log[i].by

\* A text of 10001 characters is synthesized as chunks of 5000, 5000 and 1.
C15_Witness ==
    /\ TtsDone /\ ~TtsOut.res.raised
    /\ TtsIn.text.len = 10001
    /\ Len(TtsOut.audio) = 3
    /\ TtsOut.audio[3].from = 10000 /\ TtsOut.audio[3].to = 10001

(***************************************************************************)
(* Properties of build_assets.                                             *)
(***************************************************************************)
AssetsDone == probe.fn = "build_assets" /\ probe.out # <<>>
AssetsOut == probe.out[1]
AssetsIn == probe.input
InSections == AssetsIn.obj.sections.items

\* C16: build_assets returns one asset per section, in the order of the sections:
\* the asset at position i carries the section number i in its file name and was
\* made from section i, whatever the searches and downloads did.
C16_OneAssetPerSection ==
    (AssetsDone /\ Len(InSections) >= 1) =>
       /\ Len(AssetsOut.assets) = Len(InSections)
       /\ \A i \in 1..Len(AssetsOut.assets) :
             /\ AssetsOut.assets[i].idx = i
             /\ AssetsOut.assets[i].kind \in {"clip", "slide"}
             /\ AssetsOut.made[i].heading = InSections[i].heading

\* Three sections with different headings; the second one's download failed.
C16_Witness ==
    /\ AssetsDone /\ AssetsIn.hasKey
    /\ Len(InSections) = 3
    /\ InSections[1].heading # InSections[2].heading
    /\ InSections[2].heading # InSections[3].heading
    /\ AssetsIn.oracle[2].download = "http_error" /\ AssetsIn.oracle[2].search = "url"
    /\ Len(AssetsOut.assets) = 3

\* C17: a section gets a clip if and only if a key is configured, its search
\* returned a usable link and its download succeeded, and a slide otherwise; so
\* the asset of a section depends on that section's search and download alone, and
\* the stage returns whatever failed.
C17_PerSectionDegradation ==
    AssetsDone =>
       /\ Len(AssetsOut.assets) = Len(InSections)
       /\ \A i \in 1..Len(AssetsOut.assets) :
             LET found == /\ AssetsIn.hasKey
                          /\ AssetsIn.oracle[i].search = "url"
                          /\ AssetsIn.oracle[i].download = "ok"
             IN /\ found => AssetsOut.assets[i].kind = "clip"
                /\ ~found => AssetsOut.assets[i].kind = "slide"
                /\ AssetsOut.assets[i] \in AssetsOut.writes

\* A clip, then a slide for a failed download, then a clip again.
C17_Witness ==
    /\ AssetsDone /\ Len(AssetsOut.assets) = 3
    /\ AssetsIn.oracle[2].search = "url" /\ AssetsIn.oracle[2].download = "stream_error"
    /\ AssetsOut.assets[1].kind = "clip"
    /\ AssetsOut.assets[2].kind = "slide"
    /\ AssetsOut.assets[3].kind = "clip"

\* C18 as stated: with a key configured the query searched for a section is its
\* b_roll hint, and its heading whenever b_roll is empty or absent.
C18_QueryFallsBackToHeading ==
    (AssetsDone /\ AssetsIn.hasKey) =>
       \A i \in 1..Len(InSections) :
          AssetsOut.made[i].queries =
             <<IF "b_roll" \in InSections[i].names /\ InSections[i].b_roll # ""
               THEN InSections[i].b_roll ELSE InSections[i].heading>>

(***************************************************************************)
(* Properties of compose_video and _estimate_section_timings.              *)
(***************************************************************************)
ComposeDone == probe.fn = "compose_video" /\ probe.out # <<>>
ComposeOut == probe.out[1]
ComposeIn == probe.input

AllAssetsMissing == \A i \in 1..Len(ComposeIn.assets) : ComposeIn.assets[i] \notin ComposeIn.existing

\* C19: compose_video fails with the missing-voice-file error when the audio path
\* does not exist, whatever else is the case; it fails with the no-usable-assets
\* error when the narration loads and every asset of the list is missing from
\* disk; in both cases neither the final video nor the subtitle file is written.
C19_ComposeFailures ==
    ComposeDone =>
       /\ ComposeIn.voice \notin ComposeIn.existing =>
             /\ ComposeOut.res.raised
             /\ ComposeOut.res.exc.type = "FileNotFoundError"
             /\ ComposeOut.writes = {}
       /\ (/\ ComposeIn.voice \in ComposeIn.existing
           /\ ComposeIn.answer.audio = "ok"
           /\ AllAssetsMissing) =>
             /\ ComposeOut.res.raised
             /\ ComposeOut.res.exc = Exc("ValueError", <<"No clips could be created.">>)
             /\ ComposeOut.writes = {}

\* The narration exists and loads, two assets are listed and neither is on disk.
C19_Witness ==
    /\ ComposeDone
    /\ ComposeIn.voice \in ComposeIn.existing
    /\ Len(ComposeIn.assets) = 2 /\ AllAssetsMissing
    /\ ComposeOut.res.exc.type = "ValueError"
    /\ ComposeOut.writes = {}

TimingsDone == probe.fn = "_estimate_section_timings" /\ probe.out # <<>>
TimingsOut == probe.out[1]
TimingsIn == probe.input

\* The words of section i: those of its heading and body, 1 when there is none.
WordsOf(i) ==
    LET sec == TimingsIn.obj.sections.items[i]
        n == (IF "heading" \in sec.names THEN sec.hw ELSE 0)
             + (IF "body" \in sec.names THEN sec.bw ELSE 0)
    IN IF n = 0 THEN 1 ELSE n

RECURSIVE TotalWords(_)
TotalWords(n) == IF n = 0 THEN 0 ELSE WordsOf(n) + TotalWords(n - 1)

RECURSIVE RatSum(_)
RatSum(seq) == IF seq = <<>> THEN Rat(0, 1) ELSE RatAdd(seq[1], RatSum(Tail(seq)))

SegmentsOut == ComposeOut.clips

\* C21: in a composed video the first segment has no cross-fade and every later
\* segment has one, also when leading assets were missing and skipped.
C21_CrossFadeExceptFirst ==
    (ComposeDone /\ ~ComposeOut.res.raised) =>
        /\ ~SegmentsOut[1].crossfade
        /\ \A k \in 2..Len(SegmentsOut) : SegmentsOut[k].crossfade

SrtDone == probe.fn = "_generate_srt" /\ probe.out # <<>>
SrtOut == probe.out[1]
SrtIn == probe.input

\* The time at which the first k sections are over: the sum of their timings.
RECURSIVE TimeAfter(_)
TimeAfter(k) ==
    IF k = 0 THEN Rat(0, 1) ELSE RatNorm(RatAdd(TimeAfter(k - 1), SrtIn.timings[k]))

\* A time stamp in milliseconds.
Millis(stamp) ==
    ((stamp.hours * 60 + stamp.minutes) * 60 + stamp.seconds) * 1000 + stamp.millis

\* C22: the subtitle file has one cue per section, numbered in section order;
\* the first cue starts at 00:00:00,000, every later cue starts at the stamp at
\* which the one before it ends, and cue i runs from the sum of the timings
\* before section i to that sum plus the timing of section i, so that the two
\* stamps of a cue are less than a millisecond off the timing of its section.
C22_OneCuePerSection ==
    SrtDone =>
       LET n == Len(SrtIn.obj.sections.items) IN
       /\ Len(SrtOut) = n
       /\ \A i \in 1..n :
             /\ SrtOut[i].number = i
             /\ SrtOut[i].start = FormatSrtTime(TimeAfter(i - 1))
             /\ SrtOut[i].end = FormatSrtTime(TimeAfter(i))
             /\ LET shown == Millis(SrtOut[i].end) - Millis(SrtOut[i].start)
                    d == SrtIn.timings[i]
                IN /\ (shown - 1) * d.den < d.num * 1000
                   /\ d.num * 1000 < (shown + 1) * d.den
       /\ n > 0 => SrtOut[1].start = [hours |-> 0, minutes |-> 0, seconds |-> 0, millis |-> 0]
       /\ \A i \in 2..n : SrtOut[i].start = SrtOut[i - 1].end

\* Three sections whose timings are not whole milliseconds.
C22_Witness ==
    /\ SrtDone
    /\ Len(SrtOut) = 3
    /\ SrtOut[2].start.millis # 0
    /\ SrtOut[3].start # SrtOut[2].start

ThumbDone == probe.fn = "generate_thumbnail" /\ probe.out # <<>>
ThumbOut == probe.out[1]
ThumbIn == probe.input

\* The image service was asked and did not deliver an image.
AiFailed == ThumbIn.hasKey /\ ThumbIn.answer # "ok"

\* C23: generate_thumbnail never raises because of the image service: the
\* service is asked only when an API key is given, and when it fails in any way
\* or no key is given the image is rendered locally, written to the thumbnail
\* path, and that path is returned.
C23_ThumbnailFallsBackLocally ==
    ThumbDone =>
       /\ ~ThumbOut.res.raised
       /\ Occurs("dalle", ThumbOut.trace) => ThumbIn.hasKey
       /\ (AiFailed \/ ~ThumbIn.hasKey) =>
             /\ Last(ThumbOut.trace) = "pillow"
             /\ ThumbOut.res.value = ThumbnailPath(ThumbIn.obj, ThumbIn.uid)
             /\ ThumbOut.res.value \in ThumbOut.writes

\* The image was generated but could not be downloaded.
C23_Witness ==
    /\ ThumbDone
    /\ ThumbIn.hasKey /\ ThumbIn.answer = "download_error"
    /\ ThumbOut.trace = <<"dalle", "pillow">>
    /\ ~ThumbOut.res.raised

UpDone == probe.fn = "upload_video" /\ probe.out # <<>>
UpOut == probe.out[1]
UpIn == probe.input
Requests == UpOut.trace

\* Credential k is given neither by the argument nor by the environment (an
\* empty value gives nothing).
Missing(k) == DictGet(UpIn.credentials, k, "") = "" /\ DictGet(UpIn.env, k, "") = ""
AllCredentials == \A k \in YoutubeCreds : ~Missing(k)

\* C24: when one of the three credentials is absent from the argument and from
\* the environment, upload_video sends no request, saves exactly one
\* PendingUpload row, and returns status pending_upload with the id of that row.
C24_PendingWithoutCredentials ==
    (UpDone /\ \E k \in YoutubeCreds : Missing(k)) =>
       /\ Requests = <<>>
       /\ Len(UpOut.pending) = 1
       /\ ~UpOut.res.raised
       /\ UpOut.res.value = UploadResult("pending_upload", UpOut.pending[1])

\* Only the refresh token is missing; the database numbers the new row 8.
C24_Witness ==
    /\ UpDone
    /\ Missing("YOUTUBE_REFRESH_TOKEN") /\ ~Missing("YOUTUBE_CLIENT_ID")
    /\ UpIn.oracle.row = "8"
    /\ UpOut.res.value = UploadResult("pending_upload", "8")

\* The answer to the request at position p of the requests sent: the token
\* request has one answer, a session or byte request has the answer of its
\* attempt, a thumbnail request the answer of its turn.
AttemptAt(p) == Count("init", SubSeq(Requests, 1, p))
AnswerAt(p) ==
    CASE Requests[p] = "token" -> UpIn.oracle.token
      [] Requests[p] = "init" -> At(UpIn.oracle.init, AttemptAt(p))
      [] Requests[p] = "put" -> At(UpIn.oracle.put, AttemptAt(p))
      [] Requests[p] = "thumb" -> At(UpIn.oracle.thumb, Count("thumb", SubSeq(Requests, 1, p)))

Is2xx(status) == status >= 200 /\ status < 300
Is5xx(status) == status >= 500

\* The request at position p opened an upload session.
SessionOpened(p) == Requests[p] = "init" /\ AnswerAt(p) = 200 /\ UpIn.oracle.location
BytesAccepted(p) == Requests[p] = "put" /\ AnswerAt(p) \in {200, 201}
Uploaded == ~UpOut.res.raised /\ UpOut.res.value.status = "uploaded"

C26_TokenFailureFatal ==
    (UpDone /\ AllCredentials /\ UpIn.oracle.token # 200) =>
       /\ Requests = <<"token">>
       /\ UpOut.res.raised
       /\ UpOut.pending = <<>>

\* The token request is refused with 403.
C26_Witness ==
    /\ UpDone /\ AllCredentials
    /\ UpIn.oracle.token = 403
    /\ UpOut.res.raised /\ UpOut.res.exc.type = "UploadError"
    /\ Requests = <<"token">>

\* The session and byte requests.
TransferRequests == {p \in 1..Len(Requests) : Requests[p] \in {"init", "put"}}

\* A 5xx answer is followed by another attempt unless it ended the fifth.
RetriesServerErrors ==
    /\ UpOut.attempts <= UPLOAD_STOP_AFTER_ATTEMPT
    /\ \A p \in TransferRequests :
          Is5xx(AnswerAt(p)) =>
             IF AttemptAt(p) < UPLOAD_STOP_AFTER_ATTEMPT
             THEN p < Len(Requests) /\ Requests[p + 1] = "init"
             ELSE p = Len(Requests) /\ UpOut.res.raised

\* An answer that is neither 2xx nor 5xx ends the upload with UploadError.
OtherErrorsFatal ==
    \A p \in TransferRequests :
       (AnswerAt(p) # 0 /\ ~Is2xx(AnswerAt(p)) /\ ~Is5xx(AnswerAt(p))) =>
          /\ p = Len(Requests)
          /\ UpOut.res.raised /\ UpOut.res.exc.type = "UploadError"

\* No upload ends in an error at a request that was answered 2xx.
SuccessNeverAnError ==
    \A p \in TransferRequests :
       Is2xx(AnswerAt(p)) => ~(p = Len(Requests) /\ UpOut.res.raised)

\* C27: of the session and byte requests, one answered 5xx is retried up to
\* five attempts in all, one answered with another status that is not 2xx ends
\* the upload at once with UploadError, and one answered 2xx is never the
\* reason for an error.
C27_RetryServerErrorsOnly ==
    UpDone => (RetriesServerErrors /\ OtherErrorsFatal /\ SuccessNeverAnError)

\* C28: status uploaded is returned only when a thumbnail request was answered
\* with 200.
C28_ThumbnailNeverSkipped ==
    (UpDone /\ Uploaded) =>
       \E p \in 1..Len(Requests) : Requests[p] = "thumb" /\ AnswerAt(p) = 200

\* AUTO_PUBLISH is set to the word true, in whatever case.
AutoPublishOn ==
    "AUTO_PUBLISH" \in DOMAIN UpIn.env /\ UpIn.env["AUTO_PUBLISH"] \in {"true", "True", "TRUE"}

C30_NoSecondSession ==
    UpDone =>
       \A p \in 1..Len(Requests) :
          SessionOpened(p) => \A q \in (p + 1)..Len(Requests) : Requests[q] # "init"

\* The upload stage of the invocation on w is over; the environment it ran in
\* has all three credentials.
UploadRan(w) == pc[w] = "done" /\ run[w].calls.stage = "upload"
EnvHasCredentials(w) == \A k \in YoutubeCreds : DictGet(run[w].calls.env, k, "") # ""

\* C31: a PendingUpload row is saved only when credentials are absent; with the
\* credentials present the upload stage saves none and either returns status
\* uploaded, or upload_video raises and the job ends in failed, never in
\* pending_upload.
C31_PendingOnlyWithoutCredentials ==
    \A w \in Workers :
       UploadRan(w) =>
          /\ run[w].calls.pending # <<>> => ~EnvHasCredentials(w)
          /\ EnvHasCredentials(w) =>
                /\ run[w].calls.pending = <<>>
                /\ \/ /\ run[w].outcome = NoExc
                      /\ run[w].upload_result.status = "uploaded"
                      /\ Stored(w).status = "completed"
                   \/ /\ run[w].raisedIn = "upload"
                      /\ run[w].outcome # NoExc
                      /\ Stored(w).status = "failed"

\* The byte upload was refused after the session had been opened.
C31_Witness ==
    /\ UploadRan("w1") /\ EnvHasCredentials("w1")
    /\ run["w1"].calls.trace = <<"token", "init", "put">>
    /\ run["w1"].outcome.type = "UploadError"
    /\ Stored("w1").status = "failed"
    /\ run["w1"].calls.pending = <<>>

\* The accepted calls of queue.enqueue that carry job id j.
SentFor(j) == SelectSeq(submit.sent, LAMBDA args : args.job_id = j)

\* C32: every submission that returned has one row of its own and one accepted
\* call of queue.enqueue with the id of that row and job_timeout '1h'; a row is
\* in status queued as long as its invocation has not been taken; and the row
\* of every invocation in the queue or on a worker exists, the commit coming
\* before the enqueue.
C32_OneRowOneInvocation ==
    /\ \A i \in 1..Len(submit.returned) :
          LET j == submit.returned[i] IN
          /\ j \in DOMAIN jobs
          /\ \A k \in 1..Len(submit.returned) : submit.returned[k] = j => k = i
          /\ Len(SentFor(j)) = 1
          /\ SentFor(j)[1].job_timeout = "1h"
    /\ \A i \in 1..Len(queue) :
          /\ queue[i] \in DOMAIN jobs
          /\ jobs[queue[i]].status = "queued"
    /\ submit.pc = "half" =>
          /\ submit.job_id \in DOMAIN jobs
          /\ jobs[submit.job_id].status = "queued"
          /\ ~Queued(submit.job_id) /\ ~Running(submit.job_id)
    /\ \A w \in Workers : pc[w] # "idle" => run[w].job \in DOMAIN jobs

\* Two submissions have returned, one from the command line and one from the
\* API, and the worker is busy with the first while the second waits.
C32_Witness ==
    /\ submit.returned = <<1, 2>>
    /\ Len(submit.sent) = 2 /\ submit.sent[1].retry # submit.sent[2].retry
    /\ pc["w1"] = "tts" /\ run["w1"].job = 1
    /\ queue = <<2>>

ApiDone == probe.fn \in {"list_jobs", "get_job_details", "enqueue_job_endpoint", "dashboard"}
           /\ probe.out # <<>>
ApiOut == probe.out[1]
ApiIn == probe.input

\* C33: with a secret configured, a request to the job list, the job detail,
\* the enqueue endpoint or the dashboard whose X-API-KEY header is missing or
\* different from the secret is answered 403, reads no row and leaves the job
\* table and the queue as they were; without a secret no request is answered
\* 403, whatever its header.
C33_SecretGatesEndpoints ==
    ApiDone =>
       /\ (ApiIn.secret # "" /\ ApiIn.header # ApiIn.secret) =>
             /\ ApiOut.status = 403
             /\ ApiOut.read = {}
             /\ jobs = ApiIn.table
             /\ queue = <<>>
       /\ ApiIn.secret = "" => ApiOut.status # 403

\* A POST /enqueue without the header while a secret is set and a job exists.
C33_Witness ==
    /\ ApiDone
    /\ probe.fn = "enqueue_job_endpoint"
    /\ ApiIn.secret = "s3cret" /\ ApiIn.header = "none"
    /\ DOMAIN ApiIn.table = {1}
    /\ ApiOut.status = 403 /\ jobs = ApiIn.table

\* The answer to the i-th request made to the primary provider for chunk c.
PrimaryAnswer(c, i) == At(TtsIn.eleven, ElevenBefore(TtsOut.log, c) + i)

\* C34: for each chunk the primary provider is asked at most 3 times; every
\* request before the last one was answered with something other than 200 (a
\* status or a request error), fewer than 3 requests mean the last one was
\* answered 200, a request answered 200 (the third included) gives the audio
\* of the chunk, and the secondary provider is asked only after three failed
\* requests to the primary.
C34_PrimaryThreeAttempts ==
    (TtsDone /\ "ELEVENLABS_API_KEY" \in TtsIn.env) =>
       \A c \in 1..Len(TtsOut.log) :
          LET calls == TtsOut.log[c].calls
              k == Count("eleven", calls)
          IN /\ k >= 1 /\ k <= 3
             /\ \A i \in 1..(k - 1) : PrimaryAnswer(c, i) # 200
             /\ k < 3 => PrimaryAnswer(c, k) = 200
             /\ PrimaryAnswer(c, k) = 200 =>
                   /\ TtsOut.log[c].by = "eleven"
                   /\ ~Occurs("polly", calls)
                   /\ ~TtsOut.res.raised => TtsOut.audio[c].by = "eleven"
             /\ Occurs("polly", calls) =>
                   /\ k = 3
                   /\ \A i \in 1..3 : PrimaryAnswer(c, i) # 200

\* A status 500, a request error, then 200: the third attempt gives the audio.
C34_Witness ==
    /\ TtsDone /\ ~TtsOut.res.raised
    /\ TtsIn.eleven = <<500, 0, 200>>
    /\ TtsOut.log[1] = [calls |-> <<"eleven", "eleven", "eleven">>, by |-> "eleven"]

\* The chunk for which no provider gave audio, if any.
ChunkWithoutAudio(c) == c \in 1..Len(TtsOut.log) /\ TtsOut.log[c].by = "none"

\* C39: if some chunk gets audio from no provider, tts_from_text raises and
\* writes no output file, also when earlier chunks were synthesized; the output
\* file is written only when every chunk of the text has audio.
C39_NarrationAllOrNothing ==
    TtsDone =>
       LET path == TtsOutputPath(TtsIn.text, now) IN
       /\ (\E c \in 1..Len(TtsOut.log) : ChunkWithoutAudio(c)) =>
             /\ TtsOut.res.raised
             /\ TtsOut.writes = {}
       /\ TtsOut.res.raised => path \notin TtsOut.writes
       /\ path \in TtsOut.writes =>
             /\ ~TtsOut.res.raised
             /\ TtsOut.res.value = path
             /\ Len(TtsOut.log) = Len(Chunks(TtsIn.text.len))
             /\ \A c \in 1..Len(TtsOut.log) : TtsOut.log[c].by # "none"

\* The first chunk is synthesized, the second fails on every usable provider.
C39_Witness ==
    /\ TtsDone /\ TtsOut.res.raised
    /\ Len(TtsOut.log) = 2
    /\ TtsOut.log[1].by = "eleven"
    /\ ChunkWithoutAudio(2)
    /\ Occurs("polly", TtsOut.log[2].calls)
    /\ TtsOut.writes = {}

\* C36 as stated: whenever an invocation has finished, also one that follows
\* earlier invocations for the same job, the job's metadata has the key error
\* if and only if its status is failed.
C36_ErrorKeyIffFailed ==
    \A w \in Active :
       pc[w] = "done" =>
          (("error" \in DOMAIN Stored(w).metadata) <=> (Stored(w).status = "failed"))

\* The worker whose invocation took the step, if one did.
Stepped(w) == pc'[w] # pc[w] /\ pc'[w] # "idle"

\* The columns of a row that a status update does not name.
Untouched(row) == [niche |-> row.niche, topic_hint |-> row.topic_hint,
                   created_at |-> row.created_at]

\* C37: a status update by the invocation for job j creates and deletes no
\* row, leaves the row of every other job as it was, leaves niche, topic_hint
\* and created_at of j's row as they were, and when j has no row it leaves the
\* whole table as it was while the invocation moves on to its next step.
FrameStep ==
    \A w \in Workers :
       Stepped(w) =>
          LET j == run'[w].job IN
          /\ DOMAIN jobs' = DOMAIN jobs
          /\ \A i \in DOMAIN jobs : i # j => jobs'[i] = jobs[i]
          /\ j \in DOMAIN jobs => Untouched(jobs'[j]) = Untouched(jobs[j])
          /\ j \notin DOMAIN jobs => jobs' = jobs

C35_TerminalAgreesWithOutcome ==
    \A w \in Active :
       (pc[w] = "done" /\ run[w].job \in DOMAIN jobs) =>
          /\ (run[w].raisedIn = "none") <=> (Stored(w).status \in {"completed", "pending_upload"})
          /\ (run[w].raisedIn # "none") <=> (Stored(w).status = "failed")

\* The metadata key an update with this status names.
KeyOfStatus(status) ==
    CASE status = "script_generated" -> {"script"}
      [] status = "tts_complete" -> {"voice_path"}
      [] status = "assets_ready" -> {"assets"}
      [] status = "video_composed" -> {"video_path"}
      [] status = "thumbnail_ready" -> {"thumbnail_path"}
      [] status \in {"completed", "pending_upload"} -> {"upload_result"}
      [] status = "failed" -> {"error"}
      [] OTHER -> {}

\* The metadata keys the invocation on worker w has committed so far.
CommittedKeys(w) == UNION {KeyOfStatus(run[w].written[i]) : i \in 1..Len(run[w].written)}

\* C38 as stated: when no update of an invocation is between its query and its
\* commit, the stored metadata of a job has every key that an invocation for
\* the job has committed, also when two invocations for the job overlap.
C38_NoLostUpdate ==
    (\A w \in Workers : pc[w] # "commit") =>
       \A w \in Active : CommittedKeys(w) \subseteq DOMAIN Stored(w).metadata

====
